---- MODULE Spec2Model ----
(***************************************************************************)
(* State-machine model of jose-universal: flattened JWE encrypt/decrypt    *)
(* (ECDH-ES + Concat-KDF + AEAD, RFC 7516 section 11.5 mitigation) and     *)
(* flattened/compact JWS sign/verify, with the shared crit validation.     *)
(*                                                                         *)
(* Conventions.                                                            *)
(*   - A JS value that may be undefined is <<>> (Undefined) or <<v>>.      *)
(*   - Byte sequences (Uint8Array) and strings are sequences of numbers;   *)
(*     strings hold ASCII codes, so TextEncoder.encode is the identity on  *)
(*     them and base64url is computed digit by digit.                      *)
(*   - A header object is a function from parameter names to values.       *)
(*   - A function that can throw returns [ok |-> TRUE, v |-> result] or    *)
(*     [ok |-> FALSE, err |-> error].                                      *)
(*   - The providers (curve, AEAD, signature) are outside the repository;  *)
(*     they are modelled as ideal functionalities at their call sites.     *)
(***************************************************************************)
EXTENDS Integers, Sequences, FiniteSets, TLC

(***************************************************************************)
(* Bounds of the model.                                                    *)
(***************************************************************************)
\* recipient / signer private scalars are 1..MaxScalar
MaxScalar == 2
\* ephemeral private scalars drawn by randomPrivateKey are 1..MaxEphemeral
MaxEphemeral == 2
\* Math.random() is drawn from {0/RandSteps, ..., (RandSteps-1)/RandSteps}
RandSteps == 3
\* the provider's randomBytes (mitigated CEK, IV) is one of MaxRandom draws
MaxRandom == 1
\* the calls of one setter of a builder that a run follows
MaxSetterCalls == 3
\* the calls of encrypt or of sign on a builder that has been used already
MaxReuse == 1

(***************************************************************************)
(* JS values.                                                              *)
(***************************************************************************)
Undefined == <<>>
Some(v) == <<v>>
IsDefined(o) == o # <<>>
ValueOf(o) == o[1]

Ok(v) == [ok |-> TRUE, v |-> v]
Throw(e) == [ok |-> FALSE, err |-> e]

\* a statement whose value the statements after it use: a throw ends the block
Bind(r, F(_)) == IF r.ok THEN F(r.v) ELSE r

\* const name = r, added to the locals l of the block
Const(l, name, r) == IF r.ok THEN Ok((name :> r.v) @@ l) ELSE r

\* errors (unnamed/part_001): the class name and the message
Error(type, message) == [type |-> type, message |-> message]

\* a string-typed JSON member that holds a number instead
NonString == "#number"
\* the same for members whose strings are modelled as character sequences
NonStringChars == <<0>>
\* JSON null
JNull == "#null"
JTrue == "true"
JFalse == "false"

EmptyObject == <<>>
\* an object that is not a plain object (an array, a class instance)
NotPlainObject == [nonplain |-> "array"]

Min(a, b) == IF a < b THEN a ELSE b

Repeat(b, n) == [i \in 1..n |-> b]

(***************************************************************************)
(* u8a-utils: toUint32BE, encodeBase64Url, decodeBase64Url.                *)
(***************************************************************************)
toUint32BE(n) ==
  << (n \div 16777216) % 256, (n \div 65536) % 256, (n \div 256) % 256, n % 256 >>

B64Char(i) ==
  IF i < 26 THEN 65 + i
  ELSE IF i < 52 THEN 97 + (i - 26)
  ELSE IF i < 62 THEN 48 + (i - 52)
  ELSE IF i = 62 THEN 45 ELSE 95

B64Val(c) ==
  IF c >= 65 /\ c <= 90 THEN c - 65
  ELSE IF c >= 97 /\ c <= 122 THEN c - 97 + 26
  ELSE IF c >= 48 /\ c <= 57 THEN c - 48 + 52
  ELSE IF c = 45 THEN 62
  ELSE IF c = 95 THEN 63 ELSE -1

\* the 6-bit digit at position j (from 0) of the base64url text of bytes b
B64Digit(b, j) ==
  LET g == 3 * (j \div 4)
      at(i) == IF g + i <= Len(b) THEN b[g + i] ELSE 0
      p == j % 4
  IN
  IF p = 0 THEN at(1) \div 4
  ELSE IF p = 1 THEN (at(1) % 4) * 16 + (at(2) \div 16)
  ELSE IF p = 2 THEN (at(2) % 16) * 4 + (at(3) \div 64)
  ELSE at(3) % 64

\* encodeBase64Url of u8a-utils: no padding
encodeBase64Url(b) ==
  [j \in 1..((Len(b) * 4 + 2) \div 3) |-> B64Char(B64Digit(b, j - 1))]

IsBase64Url(s) ==
  /\ Len(s) % 4 # 1
  /\ \A i \in 1..Len(s) : B64Val(s[i]) >= 0

\* the byte at position i (from 0) of the bytes a base64url text s stands for
DecodedByte(s, i) ==
  LET g == 4 * (i \div 3)
      at(j) == IF g + j <= Len(s) THEN B64Val(s[g + j]) ELSE 0
      p == i % 3
  IN
  IF p = 0 THEN at(1) * 4 + (at(2) \div 16)
  ELSE IF p = 1 THEN (at(2) % 16) * 16 + (at(3) \div 4)
  ELSE (at(3) % 4) * 64 + at(4)

DecodeDigits(s) == [i \in 1..((Len(s) * 3) \div 4) |-> DecodedByte(s, i - 1)]

\* decodeBase64Url of u8a-utils: throws on anything that is not base64url
decodeB64U(s) ==
  IF IsBase64Url(s) THEN Ok(DecodeDigits(s))
  ELSE Throw(Error("Error", "invalid base64url"))

Dot == 46

(***************************************************************************)
(* Curve provider (noble-curves-extended, createEcdhCurve and              *)
(* createSignatureCurve).  Key agreement is Diffie-Hellman in the          *)
(* multiplicative group modulo 11 with generator 2; a coordinate is the    *)
(* group element as a big-endian number of the curve's byte length.        *)
(***************************************************************************)
EcdhCurveNames == {"P-256", "P-384", "P-521", "X25519"}
SignatureCurveNames == {"P-256", "P-384", "P-521", "secp256k1", "Ed25519"}

KtyOf(crv) == IF crv \in {"X25519", "Ed25519"} THEN "OKP" ELSE "EC"

ProviderKeyLength(crv) ==
  IF crv = "P-384" THEN 48 ELSE IF crv = "P-521" THEN 66 ELSE 32

RECURSIVE GroupExp(_, _)
GroupExp(base, e) == IF e = 0 THEN 1 ELSE (base * GroupExp(base, e - 1)) % 11

GroupElements == 1..10
YOf(v) == ((v * v + 3) % 11) + 20

Coordinate(v, crv) == Repeat(0, ProviderKeyLength(crv) - 1) \o <<v>>

\* the base64url text of every coordinate the provider can emit
CoordinateB64U ==
  [crv \in EcdhCurveNames \cup SignatureCurveNames |->
     [v \in 0..30 |-> encodeBase64Url(Coordinate(v, crv))]]

\* curve.getPublicKey(privateKey): the raw public key
getPublicKey(crv, privateKey) == [crv |-> crv, v |-> GroupExp(2, privateKey)]

\* curve.toJwkPublicKey(rawPublicKey)
toJwkPublicKey(raw) ==
  [ plain |-> TRUE, kty |-> KtyOf(raw.crv), crv |-> Some(raw.crv),
    x |-> Some(CoordinateB64U[raw.crv][raw.v]),
    y |-> IF KtyOf(raw.crv) = "EC" THEN Some(CoordinateB64U[raw.crv][YOf(raw.v)])
          ELSE Undefined,
    d |-> Undefined ]

\* curve.toJwkPrivateKey(rawPrivateKey)
toJwkPrivateKey(crv, privateKey) ==
  [ toJwkPublicKey(getPublicKey(crv, privateKey)) EXCEPT
      !.d = Some(CoordinateB64U[crv][privateKey]) ]

ProviderError == Error("Error", "curve provider rejected the key")

\* the group element a base64url coordinate of the curve stands for, 0 if none
CoordinateValue(b64u, crv) ==
  LET known == {v \in 0..30 : b64u = Some(CoordinateB64U[crv][v])} IN
  IF known = {} THEN 0 ELSE CHOOSE v \in known : TRUE

\* curve.toRawPublicKey(jwk): throws unless jwk is a public key of this curve
toRawPublicKey(crv, jwk) ==
  LET check(v) ==
        IF \/ ~jwk.plain
           \/ jwk.crv # Some(crv)
           \/ jwk.kty # KtyOf(crv)
           \/ v \notin GroupElements
           \/ (KtyOf(crv) = "EC" /\ CoordinateValue(jwk.y, crv) # YOf(v))
        THEN Throw(ProviderError)
        ELSE Ok([crv |-> crv, v |-> v])
  IN check(CoordinateValue(jwk.x, crv))

\* curve.toRawPrivateKey(jwk): throws unless jwk is a private key of this curve
toRawPrivateKey(crv, jwk) ==
  LET check(pub, d) ==
        IF d \notin GroupElements \/ GroupExp(2, d) # pub.v THEN Throw(ProviderError)
        ELSE Ok(d)
      private(pub) == check(pub, CoordinateValue(jwk.d, crv))
  IN Bind(toRawPublicKey(crv, jwk), private)

\* curve.getSharedSecret({privateKey, publicKey})
getSharedSecret(privateKey, publicKey) == << GroupExp(publicKey.v, privateKey) >>

\* createEcdhCurve(crv, randomBytes): throws for a curve it does not know
createEcdhCurve(crv) ==
  IF crv \in EcdhCurveNames THEN Ok(crv)
  ELSE Throw(Error("Error", "unsupported curve"))


(***************************************************************************)
(* Header objects and their JSON text.  JSON.stringify writes the members  *)
(* in KeyOrder, each as the code of its name followed by the code of its   *)
(* value, between the braces 123 and 125; JSON.parse reads that back and   *)
(* throws on any other text.                                               *)
(***************************************************************************)
Has(h, k) == k \in DOMAIN h

\* {...a, ...b}
Spread(a, b) ==
  [k \in (DOMAIN a) \cup (DOMAIN b) |-> IF k \in DOMAIN b THEN b[k] ELSE a[k]]

\* {...o} of a possibly undefined object
ObjectOf(o) == IF IsDefined(o) THEN ValueOf(o) ELSE EmptyObject

\* src/utils/isPlainObject.ts
isPlainObject(h) == ~Has(h, "nonplain")

NotArray == <<"#notarray">>

JweEncs ==
  <<"A128GCM", "A192GCM", "A256GCM", "A128CBC-HS256", "A192CBC-HS384", "A256CBC-HS512">>

KeyOrder == <<"alg", "enc", "crit", "zip", "b64", "kid", "ext", "epk", "apu", "apv">>

CurveOrder == <<"P-256", "P-384", "P-521", "X25519">>

\* party info as the builder API takes it: empty, one byte, 32 bytes, 33 bytes
PartyInfoList == << <<>>, <<65>>, Repeat(66, 32), Repeat(67, 33) >>

HonestEpk(i) ==
  toJwkPublicKey([crv |-> CurveOrder[((i - 1) \div 10) + 1], v |-> ((i - 1) % 10) + 1])

BadEpkList ==
  LET bad(good) ==
        << [good EXCEPT !.plain = FALSE],
           [good EXCEPT !.kty = "RSA"],
           [good EXCEPT !.crv = Some("secp256k1")],
           [good EXCEPT !.x = Undefined],
           [good EXCEPT !.x = Some(encodeBase64Url(Repeat(0, 30) \o <<2>>))],
           [good EXCEPT !.y = Undefined],
           [good EXCEPT !.x = Some(<<33>>)],
           [good EXCEPT !.x = Some(CoordinateB64U["P-256"][0])],
           [good EXCEPT !.y = Some(NonStringChars)] >>
  IN bad(toJwkPublicKey([crv |-> "P-256", v |-> 2]))

EpkJsonValues == [i \in 1..40 |-> HonestEpk(i)] \o BadEpkList

PartyInfoJsonValues ==
  [i \in 1..Len(PartyInfoList) |-> encodeBase64Url(PartyInfoList[i])]
  \o << <<33>>, NonStringChars >>

AlgJsonValues ==
  << "ECDH-ES", "RSA-OAEP", "PBES2-HS256+A128KW", "", NonString,
     "ES256", "ES384", "ES512", "ES256K", "EdDSA", "HS256" >>

EncJsonValues == JweEncs \o << "A512GCM", "", NonString >>

CritJsonValues ==
  << <<"b64">>, <<"ext">>, <<"b64", "ext">>, <<"unk">>, <<"ext", "unk">>,
     <<>>, <<"">>, <<NonString>>, NotArray, <<"epk">>, <<"kid">> >>

JsonValues(k) ==
  CASE k = "alg" -> AlgJsonValues
    [] k = "enc" -> EncJsonValues
    [] k = "crit" -> CritJsonValues
    [] k = "zip" -> << "DEF" >>
    [] k = "b64" -> << JTrue, JFalse, "S" >>
    [] k = "kid" -> << "key-1" >>
    [] k = "ext" -> << "v", JNull >>
    [] k = "epk" -> EpkJsonValues
    [] k = "apu" -> PartyInfoJsonValues
    [] k = "apv" -> PartyInfoJsonValues

ValueCode(k, v) ==
  LET code(values) == CHOOSE i \in 1..Len(values) : values[i] = v IN
  code(JsonValues(k))

RECURSIVE JsonMembers(_, _)
JsonMembers(h, i) ==
  IF i > Len(KeyOrder) THEN <<>>
  ELSE (IF Has(h, KeyOrder[i]) THEN << i, ValueCode(KeyOrder[i], h[KeyOrder[i]]) >> ELSE <<>>)
       \o JsonMembers(h, i + 1)

JsonStringify(h) == <<123>> \o JsonMembers(h, 1) \o <<125>>

\* the text of a JSON value that is not an object: the number 1
JsonNumberText == <<49>>

JsonParse(text) ==
  LET n == (Len(text) - 2) \div 2
      keyAt(j) == text[2 * j]
      valAt(j) == text[2 * j + 1]
      wellFormed ==
        /\ Len(text) >= 2 /\ (Len(text) % 2) = 0
        /\ text[1] = 123 /\ text[Len(text)] = 125
        /\ \A j \in 1..n :
             /\ keyAt(j) \in 1..Len(KeyOrder)
             /\ valAt(j) \in 1..Len(JsonValues(KeyOrder[keyAt(j)]))
      last(k) == CHOOSE j \in 1..n :
                   /\ KeyOrder[keyAt(j)] = k
                   /\ \A m \in (j + 1)..n : KeyOrder[keyAt(m)] # k
  IN
  IF text = JsonNumberText THEN Ok(NotPlainObject)
  ELSE IF ~wellFormed THEN Throw(Error("SyntaxError", "Unexpected token"))
  ELSE Ok([k \in {KeyOrder[keyAt(j)] : j \in 1..n} |-> JsonValues(k)[valAt(last(k))]])


(***************************************************************************)
(* src/utils: base64url members, header encoding and parsing, crit.        *)
(***************************************************************************)
\* src/utils/decodeBase64Url.ts decodeBase64Url
decodeBase64Url(b64u, required) ==
  LET decoded(r) ==
        IF r.ok THEN Ok(Some(r.v))
        ELSE Throw(Error("JoseInvalid", "Failed to base64url decode"))
  IN
  IF ~IsDefined(b64u) THEN
    (IF required THEN Throw(Error("JoseInvalid", "is missing")) ELSE Ok(Undefined))
  ELSE IF ValueOf(b64u) = NonStringChars THEN
    Throw(Error("JoseInvalid", "must be a string"))
  ELSE decoded(decodeB64U(ValueOf(b64u)))

decodeOptionalBase64Url(b64u) == decodeBase64Url(b64u, FALSE)

decodeRequiredBase64Url(b64u) ==
  LET bytes(decoded) == Ok(ValueOf(decoded)) IN
  Bind(decodeBase64Url(b64u, TRUE), bytes)

\* unnamed/part_021 parseBase64UrlHeader
parseBase64UrlHeader(headerB64U) ==
  LET object(parsed) ==
        IF parsed.ok /\ isPlainObject(parsed.v) THEN parsed
        ELSE Throw(Error("JoseInvalid", "Failed to parse base64url encoded header"))
      parse(bytes) == object(JsonParse(bytes))
  IN Bind(decodeRequiredBase64Url(headerB64U), parse)

\* src/utils/encodeBase64UrlHeader.ts
encodeBase64UrlHeader(header) ==
  IF ~IsDefined(header) THEN <<>>
  ELSE encodeBase64Url(JsonStringify(ValueOf(header)))

\* unnamed/part_026 areDisjoint, over possibly undefined objects
areDisjoint(a, b, c) ==
  /\ (DOMAIN ObjectOf(a)) \cap (DOMAIN ObjectOf(b)) = {}
  /\ (DOMAIN ObjectOf(a)) \cap (DOMAIN ObjectOf(c)) = {}
  /\ (DOMAIN ObjectOf(b)) \cap (DOMAIN ObjectOf(c)) = {}

\* unnamed/part_026 validateStringArrayAsSet
validateStringArrayAsSet(value) ==
  IF ~IsDefined(value) THEN Ok(Undefined)
  ELSE IF ValueOf(value) = NotArray THEN Throw(Error("TypeError", "must be an array"))
  ELSE IF \E i \in 1..Len(ValueOf(value)) : ValueOf(value)[i] = NonString
    THEN Throw(Error("TypeError", "must be an array of strings"))
  ELSE Ok(Some({ValueOf(value)[i] : i \in 1..Len(ValueOf(value))}))

\* the check of one name of crit without the rule of integrity protection
CritParameterErrorWithoutProtection(recognized, parameter, protectedHeader, joseHeader) ==
  IF ~Has(recognized, parameter) THEN "is not recognized"
  ELSE IF ~Has(joseHeader, parameter) THEN "is missing in the JOSE header"
  ELSE ""

\* the check validateCrit makes for one name of crit: the message thrown, or ""
CritParameterError(recognized, parameter, protectedHeader, joseHeader) ==
  IF ~Has(recognized, parameter) THEN "is not recognized"
  ELSE IF ~Has(joseHeader, parameter) THEN "is missing in the JOSE header"
  ELSE IF /\ recognized[parameter]
          /\ (~Has(protectedHeader, parameter) \/ protectedHeader[parameter] = JNull)
    THEN "MUST be integrity protected"
  ELSE ""

\* a validateCrit whose default entries do not ask for integrity protection
validateCritUnprotectedDefault(Err, recognizedDefault, recognizedOption, protectedHeader, joseHeader) ==
  LET prot == ObjectOf(protectedHeader)
      recognized == Spread([k \in DOMAIN recognizedDefault |-> FALSE], recognizedOption)
      crit == prot["crit"]
      failing == {i \in 1..Len(crit) :
                    CritParameterError(recognized, crit[i], prot, joseHeader) # ""}
      first == CHOOSE i \in failing : \A j \in failing : i <= j
  IN
  IF Has(joseHeader, "crit") /\ ~Has(prot, "crit") THEN
    Throw(Error(Err, "crit MUST be integrity protected"))
  ELSE IF ~IsDefined(protectedHeader) \/ ~Has(prot, "crit") THEN Ok({})
  ELSE IF \/ crit = NotArray
          \/ Len(crit) = 0
          \/ \E i \in 1..Len(crit) : crit[i] = NonString \/ crit[i] = ""
    THEN Throw(Error(Err, "crit MUST be an array of non-empty strings when present"))
  ELSE IF failing # {} THEN
    Throw(Error(Err, CritParameterError(recognized, crit[first], prot, joseHeader)))
  ELSE Ok({crit[i] : i \in 1..Len(crit)})

\* a validateCrit that lets crit stand outside the protected header
validateCritAnywhere(Err, recognizedDefault, recognizedOption, protectedHeader, joseHeader) ==
  LET prot == ObjectOf(protectedHeader)
      recognized == Spread(recognizedDefault, recognizedOption)
      crit == prot["crit"]
      failing == {i \in 1..Len(crit) :
                    CritParameterError(recognized, crit[i], prot, joseHeader) # ""}
      first == CHOOSE i \in failing : \A j \in failing : i <= j
  IN
  IF ~IsDefined(protectedHeader) \/ ~Has(prot, "crit") THEN Ok({})
  ELSE IF \/ crit = NotArray
          \/ Len(crit) = 0
          \/ \E i \in 1..Len(crit) : crit[i] = NonString \/ crit[i] = ""
    THEN Throw(Error(Err, "crit MUST be an array of non-empty strings when present"))
  ELSE IF failing # {} THEN
    Throw(Error(Err, CritParameterError(recognized, crit[first], prot, joseHeader)))
  ELSE Ok({crit[i] : i \in 1..Len(crit)})

\* src/utils/validateCrit.ts validateCrit
validateCrit(Err, recognizedDefault, recognizedOption, protectedHeader, joseHeader) ==
  LET prot == ObjectOf(protectedHeader)
      recognized == Spread(recognizedDefault, recognizedOption)
      crit == prot["crit"]
      failing == {i \in 1..Len(crit) :
                    CritParameterError(recognized, crit[i], prot, joseHeader) # ""}
      first == CHOOSE i \in failing : \A j \in failing : i <= j
  IN
  IF Has(joseHeader, "crit") /\ ~Has(prot, "crit") THEN
    Throw(Error(Err, "crit MUST be integrity protected"))
  ELSE IF ~IsDefined(protectedHeader) \/ ~Has(prot, "crit") THEN Ok({})
  ELSE IF \/ crit = NotArray
          \/ Len(crit) = 0
          \/ \E i \in 1..Len(crit) : crit[i] = NonString \/ crit[i] = ""
    THEN Throw(Error(Err, "crit MUST be an array of non-empty strings when present"))
  ELSE IF failing # {} THEN
    Throw(Error(Err, CritParameterError(recognized, crit[first], prot, joseHeader)))
  ELSE Ok({crit[i] : i \in 1..Len(crit)})


\* header[k], undefined when the object has no such member
Get(h, k) == IF Has(h, k) THEN Some(h[k]) ELSE Undefined

(***************************************************************************)
(* JWE header validation.                                                  *)
(***************************************************************************)
\* unnamed/part_011 isJweAlg
isJweAlg(alg) == alg = "ECDH-ES"

\* aes-universal isEnc
isEnc(enc) == \E i \in 1..Len(JweEncs) : JweEncs[i] = enc

\* src/jwe/utils/isJweCrv.ts
isJweCrv(crv) == crv \in {Some("P-256"), Some("P-384"), Some("P-521"), Some("X25519")}

\* unnamed/part_012 validateJweAlg
validateJweAlg(alg) ==
  IF ~IsDefined(alg) \/ alg = Some(JNull) \/ alg = Some("") \/ alg = Some(NonString)
    THEN Throw(Error("JweInvalid", "alg is invalid"))
  ELSE IF ~isJweAlg(ValueOf(alg)) THEN Throw(Error("JweNotSupported", "alg is not supported"))
  ELSE Ok(ValueOf(alg))

\* src/jwe/utils/validateJweEnc.ts validateJweEnc
validateJweEnc(enc) ==
  IF ~IsDefined(enc) \/ enc = Some(JNull) \/ enc = Some("") \/ enc = Some(NonString)
    THEN Throw(Error("JweInvalid", "enc is invalid"))
  ELSE IF ~isEnc(ValueOf(enc)) THEN Throw(Error("JweNotSupported", "enc is not supported"))
  ELSE Ok(ValueOf(enc))

\* src/utils/keyLengthByCrv.ts
keyLengthByCrv(crv) ==
  IF crv = "P-256" THEN Ok(32)
  ELSE IF crv = "P-384" THEN Ok(48)
  ELSE IF crv = "P-521" THEN Ok(66)
  ELSE IF crv \in {"secp256k1", "Ed25519", "X25519"} THEN Ok(32)
  ELSE Throw(Error("JoseNotSupported", "crv is not supported"))

\* src/utils/validateKeyLengthByCrv.ts: the error thrown, if any
validateKeyLengthByCrv(key, crv) ==
  LET check(n) ==
        IF Len(key) # n THEN Throw(Error("JoseInvalid", "key length is invalid"))
        ELSE Ok(key)
  IN Bind(keyLengthByCrv(crv), check)

\* x or y of epk: decodeRequiredBase64Url, then validateKeyLengthByCrv
EpkCoordinate(b64u, crv) ==
  LET validate(bytes) == validateKeyLengthByCrv(bytes, crv) IN
  Bind(decodeRequiredBase64Url(b64u), validate)

\* src/jwe/utils/validateJweEpk.ts validateJweEpk
validateJweEpk(epk) ==
  LET k == ValueOf(epk)
      valid(y) == Ok(k)
      checkY(x) == IF k.kty = "EC" THEN Bind(EpkCoordinate(k.y, ValueOf(k.crv)), valid)
                   ELSE Ok(k)
  IN
  IF ~IsDefined(epk) THEN Throw(Error("JweInvalid", "epk is missing"))
  ELSE IF ~k.plain THEN Throw(Error("JweInvalid", "epk is not a plain object"))
  ELSE IF k.kty \notin {"EC", "OKP"} THEN Throw(Error("JweInvalid", "The kty of epk is invalid"))
  ELSE IF ~isJweCrv(k.crv) THEN Throw(Error("JweInvalid", "The crv of epk is invalid"))
  ELSE Bind(EpkCoordinate(k.x, ValueOf(k.crv)), checkY)

\* a value passed as party info that is not a Uint8Array
NotUint8Array == <<-1>>

\* src/jwe/utils/validateJweApi.ts validatePartyInfo (validateJweApu, validateJweApv)
validatePartyInfo(value) ==
  IF ~IsDefined(value) THEN Ok(Undefined)
  ELSE IF ValueOf(value) = NotUint8Array THEN Throw(Error("JweInvalid", "must be a Uint8Array"))
  ELSE IF Len(ValueOf(value)) > 32
    THEN Throw(Error("JweInvalid", "must be less than or equal to 32 bytes"))
  ELSE Ok(value)

\* src/jwe/flattened/utils/checkJweAlgAllowed.ts: the error thrown, if any
checkJweAlgAllowed(alg, keyManagementAlgorithms) ==
  LET check(allowed) ==
        IF \/ (IsDefined(allowed) /\ alg \notin ValueOf(allowed))
           \/ (~IsDefined(allowed) /\ alg \in {"PBES2-HS256+A128KW"})
          THEN Throw(Error("JweInvalid", "alg is not allowed"))
        ELSE Ok(alg)
  IN Bind(validateStringArrayAsSet(keyManagementAlgorithms), check)

\* src/jwe/flattened/utils/checkJweEncAllowed.ts: the error thrown, if any
checkJweEncAllowed(enc, contentEncryptionAlgorithms) ==
  LET check(allowed) ==
        IF IsDefined(allowed) /\ enc \notin ValueOf(allowed)
          THEN Throw(Error("JweInvalid", "enc is not allowed"))
        ELSE Ok(enc)
  IN Bind(validateStringArrayAsSet(contentEncryptionAlgorithms), check)

\* a verifyJweHeaders that lets a name stand in two headers
verifyJweHeadersOverlapping(protectedHeader, sharedUnprotectedHeader, unprotectedHeader) ==
  IF ~IsDefined(protectedHeader) THEN Throw(Error("JweInvalid", "JWE Protected Header is missing"))
  ELSE IF ~isPlainObject(ValueOf(protectedHeader))
    THEN Throw(Error("JweInvalid", "JWE Protected Header is not a plain object"))
  ELSE IF DOMAIN ValueOf(protectedHeader) = {}
    THEN Throw(Error("JweInvalid", "JWE Protected Header is empty"))
  ELSE IF IsDefined(sharedUnprotectedHeader) /\ ~isPlainObject(ValueOf(sharedUnprotectedHeader))
    THEN Throw(Error("JweInvalid", "JWE Shared Unprotected Header is not a plain object"))
  ELSE IF IsDefined(unprotectedHeader) /\ ~isPlainObject(ValueOf(unprotectedHeader))
    THEN Throw(Error("JweInvalid", "JWE Per-Recipient Unprotected Header is not a plain object"))
  ELSE Ok(TRUE)

\* unnamed/part_007 verifyJweHeaders: the error thrown, if any
verifyJweHeaders(protectedHeader, sharedUnprotectedHeader, unprotectedHeader) ==
  IF ~IsDefined(protectedHeader) THEN Throw(Error("JweInvalid", "JWE Protected Header is missing"))
  ELSE IF ~isPlainObject(ValueOf(protectedHeader))
    THEN Throw(Error("JweInvalid", "JWE Protected Header is not a plain object"))
  ELSE IF DOMAIN ValueOf(protectedHeader) = {}
    THEN Throw(Error("JweInvalid", "JWE Protected Header is empty"))
  ELSE IF IsDefined(sharedUnprotectedHeader) /\ ~isPlainObject(ValueOf(sharedUnprotectedHeader))
    THEN Throw(Error("JweInvalid", "JWE Shared Unprotected Header is not a plain object"))
  ELSE IF IsDefined(unprotectedHeader) /\ ~isPlainObject(ValueOf(unprotectedHeader))
    THEN Throw(Error("JweInvalid", "JWE Per-Recipient Unprotected Header is not a plain object"))
  ELSE IF ~areDisjoint(protectedHeader, sharedUnprotectedHeader, unprotectedHeader)
    THEN Throw(Error("JweInvalid", "Header Parameter names must be disjoint"))
  ELSE Ok(TRUE)

\* a mergeJweHeaders that refuses the protected header of a builder that
\* encrypt has used, which holds an epk
mergeJweHeadersOfFreshBuilder(protectedHeader, sharedUnprotectedHeader, unprotectedHeader) ==
  LET merged(joseHeader) ==
        IF Has(joseHeader, "zip") THEN Throw(Error("JweNotSupported", "zip is not supported"))
        ELSE IF Has(joseHeader, "epk") THEN Throw(Error("JweInvalid", "the builder was used"))
        ELSE Ok(joseHeader)
      merge(verified) ==
        merged(Spread(Spread(ObjectOf(unprotectedHeader), ObjectOf(sharedUnprotectedHeader)),
                      ObjectOf(protectedHeader)))
  IN Bind(verifyJweHeaders(protectedHeader, sharedUnprotectedHeader, unprotectedHeader), merge)

\* src/jwe/flattened/utils/mergeJweHeaders.ts
mergeJweHeaders(protectedHeader, sharedUnprotectedHeader, unprotectedHeader) ==
  LET merged(joseHeader) ==
        IF Has(joseHeader, "zip") THEN Throw(Error("JweNotSupported", "zip is not supported"))
        ELSE Ok(joseHeader)
      merge(verified) ==
        merged(Spread(Spread(ObjectOf(unprotectedHeader), ObjectOf(sharedUnprotectedHeader)),
                      ObjectOf(protectedHeader)))
  IN Bind(verifyJweHeaders(protectedHeader, sharedUnprotectedHeader, unprotectedHeader), merge)


(***************************************************************************)
(* Key management: Concat KDF and ECDH-ES.  SHA-256 (noble-hashes) is an   *)
(* ideal hash: a digest is 32 bytes that name the message hashed, so two   *)
(* digests agree only on equal messages.                                   *)
(***************************************************************************)
\* TextEncoder.encode of the name of a content encryption algorithm
TextEncode(enc) ==
  CASE enc = "A128GCM" -> <<65, 49, 50, 56, 71, 67, 77>>
    [] enc = "A192GCM" -> <<65, 49, 57, 50, 71, 67, 77>>
    [] enc = "A256GCM" -> <<65, 50, 53, 54, 71, 67, 77>>
    [] enc = "A128CBC-HS256" -> <<65, 49, 50, 56, 67, 66, 67, 45, 72, 83, 50, 53, 54>>
    [] enc = "A192CBC-HS384" -> <<65, 49, 57, 50, 67, 66, 67, 45, 72, 83, 51, 56, 52>>
    [] enc = "A256CBC-HS512" -> <<65, 50, 53, 54, 67, 66, 67, 45, 72, 83, 53, 49, 50>>

\* a byte of key material: where it comes from, what it was computed from, its index
KeyByte(src, pre, i) == [src |-> src, pre |-> pre, i |-> i]

\* the first byte of a digest carries the message, the others their index
sha256(message) ==
  [i \in 1..32 |-> KeyByte("sha256", IF i = 1 THEN message ELSE <<>>, i)]

\* curve.randomBytes(n), draw r
randomBytes(n, r) == [i \in 1..n |-> KeyByte("random", <<r>>, i)]

\* src/jwe/key-management/ecdhes/cekBitLengthByEnc.ts
cekBitLengthByEnc(enc) ==
  IF enc = "A128GCM" THEN Ok(128)
  ELSE IF enc = "A192GCM" THEN Ok(192)
  ELSE IF enc \in {"A256GCM", "A128CBC-HS256"} THEN Ok(256)
  ELSE IF enc = "A192CBC-HS384" THEN Ok(384)
  ELSE IF enc = "A256CBC-HS512" THEN Ok(512)
  ELSE Throw(Error("Error", "Unsupported JWE Encryption Algorithm"))

\* unnamed/part_003 lengthAndInput
lengthAndInput(input) == toUint32BE(Len(input)) \o input

\* unnamed/part_004 buildKdfOtherInfo
buildKdfOtherInfo(algorithm, apu, apv, keyBitLength) ==
  LET u == IF IsDefined(apu) THEN ValueOf(apu) ELSE <<>>
      v == IF IsDefined(apv) THEN ValueOf(apv) ELSE <<>>
  IN
  IF Len(u) > 32 \/ Len(v) > 32 THEN Throw(Error("JweInvalid", "APU/APV must be <=32 bytes"))
  ELSE IF ~isEnc(algorithm) THEN Throw(Error("JweNotSupported", "enc is not supported"))
  ELSE Ok(lengthAndInput(TextEncode(algorithm)) \o lengthAndInput(u) \o lengthAndInput(v)
          \o toUint32BE(keyBitLength))

RECURSIVE KdfBlocks(_, _, _, _)
KdfBlocks(sharedSecret, otherInfo, iter, iterations) ==
  IF iter >= iterations THEN <<>>
  ELSE sha256(toUint32BE(iter + 1) \o sharedSecret \o otherInfo)
       \o KdfBlocks(sharedSecret, otherInfo, iter + 1, iterations)

\* src/jwe/key-management/ecdhes/concatKdf.ts
concatKdf(sharedSecret, keyBitLength, otherInfo) ==
  LET iterations == ((keyBitLength \div 8) + 31) \div 32 IN
  SubSeq(KdfBlocks(sharedSecret, otherInfo, 0, iterations), 1, keyBitLength \div 8)

\* the tail of both ECDH-ES derivations: validateJweEnc, getSharedSecret, OtherInfo, KDF
EcdhesKdf(enc, privateKey, publicKey, apu, apv) ==
  LET validEnc(l) == Const(l, "validEnc", validateJweEnc(Some(enc)))
      keyBitLength(l) == Const(l, "keyBitLength", cekBitLengthByEnc(enc))
      otherInfo(l) == Const(l, "otherInfo", buildKdfOtherInfo(enc, apu, apv, l.keyBitLength))
      kdf(l) == Ok(concatKdf(getSharedSecret(privateKey, publicKey), l.keyBitLength,
                             l.otherInfo))
  IN Bind(Bind(Bind(Bind(Ok(EmptyObject), validEnc), keyBitLength), otherInfo), kdf)

\* src/jwe/key-management/ecdhes/ecdhesDeriveEncryptionKey.ts; myPrivateKey is
\* the draw of curve.randomPrivateKey()
ecdhesDeriveEncryptionKey(enc, curve, yourPublicKey, providedParameters, myPrivateKey) ==
  LET provided(name) == IF IsDefined(providedParameters)
                          THEN ValueOf(providedParameters)[name] ELSE Undefined
      with(name, value) == IF IsDefined(value) THEN name :> encodeBase64Url(ValueOf(value))
                           ELSE EmptyObject
      apu(l) == Const(l, "apu", validatePartyInfo(provided("apu")))
      apv(l) == Const(l, "apv", validatePartyInfo(provided("apv")))
      cek(l) == Const(l, "cek", EcdhesKdf(enc, myPrivateKey, yourPublicKey, l.apu, l.apv))
      result(l) ==
        Ok([ cek |-> l.cek, encryptedKey |-> Undefined,
             parameters |->
               Spread(Spread([epk |-> toJwkPublicKey(getPublicKey(curve, myPrivateKey))],
                             with("apu", l.apu)),
                      with("apv", l.apv)) ])
  IN Bind(Bind(Bind(Bind(Ok(EmptyObject), apu), apv), cek), result)

\* src/jwe/key-management/deriveEncryptionKey.ts
deriveEncryptionKey(alg, enc, curve, yourPublicKey, providedParameters, myPrivateKey) ==
  IF alg = "ECDH-ES"
    THEN ecdhesDeriveEncryptionKey(enc, curve, yourPublicKey, providedParameters, myPrivateKey)
  ELSE Throw(Error("JweNotSupported", "Unsupported JWE Key Management Algorithm"))

\* apu or apv of the protected header: decodeOptionalBase64Url, then validatePartyInfo
DecodePartyInfo(b64u) == Bind(decodeOptionalBase64Url(b64u), validatePartyInfo)

\* ecdhesDeriveDecryptionKey without the apu and apv of the protected header
ecdhesDeriveDecryptionKeyWithoutPartyInfo(enc, curve, myPrivateKey, protectedHeader) ==
  LET epk(l) == Const(l, "epk", validateJweEpk(Get(protectedHeader, "epk")))
      yourPublicKey(l) == Const(l, "yourPublicKey", toRawPublicKey(curve, l.epk))
      cek(l) == EcdhesKdf(enc, myPrivateKey, l.yourPublicKey, Undefined, Undefined)
  IN Bind(Bind(Bind(Ok(EmptyObject), epk), yourPublicKey), cek)

\* unnamed/part_002 ecdhesDeriveDecryptionKey
ecdhesDeriveDecryptionKey(enc, curve, myPrivateKey, protectedHeader) ==
  LET epk(l) == Const(l, "epk", validateJweEpk(Get(protectedHeader, "epk")))
      yourPublicKey(l) == Const(l, "yourPublicKey", toRawPublicKey(curve, l.epk))
      apu(l) == Const(l, "apu", DecodePartyInfo(Get(protectedHeader, "apu")))
      apv(l) == Const(l, "apv", DecodePartyInfo(Get(protectedHeader, "apv")))
      cek(l) == EcdhesKdf(enc, myPrivateKey, l.yourPublicKey, l.apu, l.apv)
  IN Bind(Bind(Bind(Bind(Bind(Ok(EmptyObject), epk), yourPublicKey), apu), apv), cek)

\* src/jwe/key-management/deriveDecryptionKey.ts
deriveDecryptionKey(alg, enc, curve, myPrivateKey, protectedHeader) ==
  IF alg = "ECDH-ES" THEN ecdhesDeriveDecryptionKey(enc, curve, myPrivateKey, protectedHeader)
  ELSE Throw(Error("JweNotSupported", "Unsupported JWE key management algorithm"))

\* src/jwe/flattened/utils/encodeAesAad.ts: the empty string is falsy
encodeAesAad(protectedHeaderB64U, aadB64U) ==
  IF IsDefined(aadB64U) /\ ValueOf(aadB64U) # <<>>
    THEN protectedHeaderB64U \o <<Dot>> \o ValueOf(aadB64U)
  ELSE protectedHeaderB64U


(***************************************************************************)
(* AEAD provider (aes-universal AesCipher).  Encryption of a plaintext     *)
(* under draw r of the IV masks each byte with r and returns a one-byte    *)
(* tag numbering the encryption; the provider's book of encryptions        *)
(* (aesLog) decides decryption: it returns the plaintext of the entry      *)
(* that agrees on enc, cek, aad, iv, ciphertext and tag, and rejects when  *)
(* there is none.                                                          *)
(***************************************************************************)
AesEncryptOutput(plaintext, r, log) ==
  [ ciphertext |-> [i \in 1..Len(plaintext) |-> (plaintext[i] + r) % 256],
    iv |-> <<r>>,
    tag |-> <<Cardinality(log) + 1>> ]

AesEntry(enc, cek, aad, plaintext, out) ==
  [ enc |-> enc, cek |-> cek, aad |-> aad, iv |-> out.iv,
    ciphertext |-> out.ciphertext, tag |-> out.tag, plaintext |-> plaintext ]

AesMatches(log, enc, cek, aad, iv, ciphertext, tag) ==
  {e \in log : /\ e.enc = enc /\ e.cek = cek /\ e.aad = aad
               /\ e.iv = iv /\ e.ciphertext = ciphertext /\ e.tag = tag}

\* aes.decrypt: the plaintext, or the provider's error
AesDecryptOutput(log, enc, cek, aad, iv, ciphertext, tag) ==
  LET matches == AesMatches(log, enc, cek, aad, iv, ciphertext, tag) IN
  IF matches = {} THEN Throw(Error("Error", "aes decrypt failed"))
  ELSE Ok((CHOOSE e \in matches : TRUE).plaintext)

(***************************************************************************)
(* JWS: header checks and signing input.                                   *)
(***************************************************************************)
\* src/jws/constants/index.ts JWS_ALGS, src/jws/utils/isJwsAlg.ts
isJwsAlg(alg) == alg \in {"ES256", "ES384", "ES512", "ES256K", "EdDSA"}

\* noble-curves-extended: signatureCurve.signatureAlgorithmName
signatureAlgorithmName(crv) ==
  CASE crv = "P-256" -> "ES256"
    [] crv = "P-384" -> "ES384"
    [] crv = "P-521" -> "ES512"
    [] crv = "secp256k1" -> "ES256K"
    [] crv = "Ed25519" -> "EdDSA"

\* createSignatureCurve(crv, randomBytes): throws for a curve it does not know
createSignatureCurve(crv) ==
  IF crv \in SignatureCurveNames THEN Ok(crv)
  ELSE Throw(Error("Error", "unsupported curve"))

\* src/jws/utils/validateJwsAlg.ts
validateJwsAlg(alg, expectedAlg) ==
  IF ~IsDefined(alg) \/ alg = Some(JNull) THEN Throw(Error("JwsInvalid", "alg is missing"))
  ELSE IF alg = Some("") THEN Throw(Error("JwsInvalid", "alg is empty"))
  ELSE IF alg = Some(NonString) THEN Throw(Error("JwsInvalid", "alg must be a string"))
  ELSE IF ~isJwsAlg(ValueOf(alg)) THEN Throw(Error("JwsNotSupported", "alg is not supported"))
  ELSE IF ValueOf(alg) # expectedAlg
    THEN Throw(Error("JwsInvalid", "alg does not match JWK parameters"))
  ELSE Ok(ValueOf(alg))

\* unnamed/part_028 verifyJwsHeaders: the error thrown, if any
verifyJwsHeaders(protectedHeader, unprotectedHeader) ==
  IF ~IsDefined(protectedHeader) THEN Throw(Error("JwsInvalid", "JWS Protected Header is missing"))
  ELSE IF ~isPlainObject(ValueOf(protectedHeader))
    THEN Throw(Error("JwsInvalid", "JWS Protected Header is not a plain object"))
  ELSE IF DOMAIN ValueOf(protectedHeader) = {}
    THEN Throw(Error("JwsInvalid", "JWS Protected Header is empty"))
  ELSE IF IsDefined(unprotectedHeader) /\ ~isPlainObject(ValueOf(unprotectedHeader))
    THEN Throw(Error("JwsInvalid", "JWS Unprotected Header is not a plain object"))
  ELSE IF ~areDisjoint(protectedHeader, unprotectedHeader, Undefined)
    THEN Throw(Error("JwsInvalid", "Header Parameter names must be disjoint"))
  ELSE Ok(TRUE)

\* src/jws/flattened/utils/mergeJwsHeaders.ts
mergeJwsHeaders(protectedHeader, unprotectedHeader) ==
  LET merge(verified) == Ok(Spread(ObjectOf(unprotectedHeader), ObjectOf(protectedHeader))) IN
  Bind(verifyJwsHeaders(protectedHeader, unprotectedHeader), merge)

\* unnamed/part_029 parseB64
parseB64(b64, criticalParamNames) ==
  IF "b64" \in criticalParamNames THEN
    (IF ~IsDefined(b64) \/ b64 = Some(JNull) THEN Ok(TRUE)
     ELSE IF ValueOf(b64) \notin {JTrue, JFalse}
       THEN Throw(Error("JwsInvalid", "b64 must be a boolean"))
     ELSE Ok(ValueOf(b64) = JTrue))
  ELSE Ok(TRUE)

\* src/jws/flattened/utils/encodeSignTarget.ts
encodeSignTarget(protectedHeader, payload, b64) ==
  LET protectedHeaderB64U == encodeBase64UrlHeader(protectedHeader) IN
  IF b64 THEN
    [ signTarget |-> protectedHeaderB64U \o <<Dot>> \o encodeBase64Url(payload),
      protectedHeaderB64U |-> protectedHeaderB64U,
      payloadB64U |-> encodeBase64Url(payload) ]
  ELSE
    [ signTarget |-> protectedHeaderB64U \o <<Dot>> \o payload,
      protectedHeaderB64U |-> protectedHeaderB64U,
      payloadB64U |-> <<>> ]

\* the payload member of a flattened JWS: a string, a Uint8Array or something else
StringPayload(text) == [type |-> "string", v |-> text]
BytesPayload(bytes) == [type |-> "Uint8Array", v |-> bytes]
OtherPayload == [type |-> "number", v |-> <<>>]

\* a verify target that base64url-encodes the payload whatever b64 says
encodeVerifyTargetEncoded(protectedHeaderB64U, payload, b64) ==
  IF b64 THEN
    (IF payload.type # "string"
       THEN Throw(Error("Error", "Payload must be a string when b64=true"))
     ELSE LET decoded == decodeB64U(payload.v) IN
       IF ~decoded.ok THEN decoded
       ELSE Ok([ verifyTarget |-> protectedHeaderB64U \o <<Dot>> \o payload.v,
                 payload |-> decoded.v ]))
  ELSE IF payload.type # "Uint8Array"
    THEN Throw(Error("Error", "Payload must be a Uint8Array when b64=false"))
  ELSE Ok([ verifyTarget |-> protectedHeaderB64U \o <<Dot>> \o encodeBase64Url(payload.v),
            payload |-> payload.v ])

\* unnamed/part_031 encodeVerifyTarget
encodeVerifyTarget(protectedHeaderB64U, payload, b64) ==
  IF b64 THEN
    (IF payload.type # "string"
       THEN Throw(Error("Error", "Payload must be a string when b64=true"))
     ELSE LET decoded == decodeB64U(payload.v) IN
       IF ~decoded.ok THEN decoded
       ELSE Ok([ verifyTarget |-> protectedHeaderB64U \o <<Dot>> \o payload.v,
                 payload |-> decoded.v ]))
  ELSE IF payload.type # "Uint8Array"
    THEN Throw(Error("Error", "Payload must be a Uint8Array when b64=false"))
  ELSE Ok([ verifyTarget |-> protectedHeaderB64U \o <<Dot>> \o payload.v,
            payload |-> payload.v ])

\* unnamed/part_030 validateFlattenedJws
validateFlattenedJws(jws) ==
  LET signature(l) == Const(l, "signature", decodeRequiredBase64Url(jws.signature))
      header(l) ==
        IF IsDefined(jws.header) /\ ~isPlainObject(ValueOf(jws.header))
          THEN Throw(Error("JwsInvalid", "JWS Unprotected Header is invalid"))
        ELSE Ok(l)
      parsedProtected(l) == Const(l, "parsedProtected", parseBase64UrlHeader(jws.protected))
      joseHeader(l) ==
        Const(l, "joseHeader", mergeJwsHeaders(Some(l.parsedProtected), jws.header))
      payload(l) ==
        IF ~IsDefined(jws.payload) THEN Throw(Error("JwsInvalid", "JWS Payload is missing"))
        ELSE IF ValueOf(jws.payload).type \notin {"string", "Uint8Array"}
          THEN Throw(Error("JwsInvalid", "JWS Payload must be a string or Uint8Array"))
        ELSE Ok(l)
  IN
  IF ~jws.plain THEN Throw(Error("JwsInvalid", "Flattened JWS must be a plain object"))
  ELSE Bind(Bind(Bind(Bind(Bind(Ok(EmptyObject),
         signature), header), parsedProtected), joseHeader), payload)

(***************************************************************************)
(* Signature provider (noble-curves-extended SignatureCurve).  Signing     *)
(* returns a one-byte signature numbering the signature; the provider's    *)
(* book of signatures (sigLog) decides verification: true when the public  *)
(* key, message and signature are those of an entry, false otherwise.      *)
(***************************************************************************)
SignatureOutput(log) == <<Cardinality(log) + 1>>

SigEntry(crv, privateKey, message, signature) ==
  [crv |-> crv, publicKey |-> getPublicKey(crv, privateKey),
   message |-> message, signature |-> signature]

\* signatureCurve.verify({publicKey, message, signature})
SignatureVerify(log, publicKey, message, signature) ==
  \E e \in log : e.publicKey = publicKey /\ e.message = message /\ e.signature = signature


(***************************************************************************)
(* State.                                                                  *)
(***************************************************************************)
VARIABLES
  env,          \* what the callers of this run do (fixed by Init)
  recipient,    \* the recipient's key pair: [crv, d]
  encrypter,    \* the private fields of the FlattenedEncrypter
  thrown,       \* what the last call of a builder method threw, if anything
  encryptCall,  \* the call of encrypt: where it stands, its locals, its outcome
  aesLog,       \* the AEAD provider's book of encryptions
  wire,         \* the flattened JWE in the recipient's hands
  decryptCall,  \* the call of decrypt: where it stands, its locals, its outcome
  setterCalls   \* the calls of each once-only setter of the encrypter, in order:
                \* what was passed and whether the call threw

jweVars ==
  << recipient, encrypter, thrown, encryptCall, aesLog, wire, decryptCall, setterCalls >>

VARIABLES
  signerKey,    \* the signer's key pair: [crv, d]
  signer,       \* the private fields of the FlattenedSigner
  signerThrown, \* what the last call of a setter of the signer threw, if anything
  signCall,     \* the call of sign: its arguments and its outcome
  sigLog,       \* the signature provider's book of signatures
  jwsWire,      \* the JWS in the verifier's hands
  verifyCall,   \* the call of verify: its arguments and its outcome
  signerSetterCalls  \* the calls of each setter of the signer, as setterCalls

jwsVars ==
  << signerKey, signer, signerThrown, signCall, sigLog, jwsWire, verifyCall,
     signerSetterCalls >>


(***************************************************************************)
(* FlattenedEncrypter (src/jwe/flattened/FlattenedEncrypter.ts).           *)
(***************************************************************************)
NoOptions ==
  [ crit |-> EmptyObject, keyManagementAlgorithms |-> Undefined,
    contentEncryptionAlgorithms |-> Undefined ]

\* a call of encrypt: besides its locals and outcome, the steps it has taken,
\* the outcomes of the other calls of encrypt on the same instance that have
\* settled, and the frames of those that are still suspended at aes.encrypt
NoCall ==
  [ pc |-> "idle", called |-> EmptyObject, locals |-> EmptyObject,
    cause |-> Undefined, result |-> Undefined, steps |-> <<>>, earlier |-> <<>>,
    pending |-> <<>> ]

\* a catch block that lets the error through
EncryptRethrow(error) == error

\* the catch block of encrypt: whatever was thrown becomes one error
EncryptCatch(error) == Error("JweInvalid", "Failed to encrypt plaintext")

\* an updateProtectedHeader that leaves the header as it is
updateProtectedHeaderNoop(protectedHeader, parameters) == protectedHeader

\* an updateProtectedHeader in which the values the header holds win
updateProtectedHeaderKeepingCaller(protectedHeader, parameters) ==
  IF ~IsDefined(parameters) THEN protectedHeader
  ELSE IF ~IsDefined(protectedHeader) THEN parameters
  ELSE Some(Spread(ValueOf(parameters), ValueOf(protectedHeader)))

\* updateProtectedHeader(parameters): the new value of #protectedHeader
updateProtectedHeader(protectedHeader, parameters) ==
  IF ~IsDefined(parameters) THEN protectedHeader
  ELSE IF ~IsDefined(protectedHeader) THEN parameters
  ELSE Some(Spread(ValueOf(protectedHeader), ValueOf(parameters)))

\* an encrypt that validates alg and enc before it composes the JOSE header
EncryptValidateAlgorithmsFirst(fields, yourJwkPublicKey, options) ==
  LET prot == ObjectOf(fields.protectedHeader)
      ecdhCurve(l) == Const(l, "ecdhCurve", createEcdhCurve(ValueOf(yourJwkPublicKey.crv)))
      yourPublicKey(l) ==
        Const(l, "yourPublicKey", toRawPublicKey(l.ecdhCurve, yourJwkPublicKey))
      joseHeader(l) ==
        Const(l, "joseHeader",
              mergeJweHeaders(fields.protectedHeader, fields.sharedUnprotectedHeader,
                              fields.unprotectedHeader))
      crit(l) ==
        Const(l, "crit", validateCrit("JweInvalid", EmptyObject, options.crit,
                                      fields.protectedHeader, l.joseHeader))
      alg(l) == Const(l, "alg", validateJweAlg(Get(prot, "alg")))
      enc(l) == Const(l, "enc", validateJweEnc(Get(prot, "enc")))
  IN
  Bind(Bind(Bind(Bind(Bind(Bind(Ok(EmptyObject),
    ecdhCurve), yourPublicKey), alg), enc), joseHeader), crit)

\* encrypt, from the try block to the call of deriveEncryptionKey: the curve,
\* the recipient's raw key, the merged header, crit, alg and enc
EncryptValidate(fields, yourJwkPublicKey, options) ==
  LET prot == ObjectOf(fields.protectedHeader)
      ecdhCurve(l) == Const(l, "ecdhCurve", createEcdhCurve(ValueOf(yourJwkPublicKey.crv)))
      yourPublicKey(l) ==
        Const(l, "yourPublicKey", toRawPublicKey(l.ecdhCurve, yourJwkPublicKey))
      joseHeader(l) ==
        Const(l, "joseHeader",
              mergeJweHeaders(fields.protectedHeader, fields.sharedUnprotectedHeader,
                              fields.unprotectedHeader))
      crit(l) ==
        Const(l, "crit", validateCrit("JweInvalid", EmptyObject, options.crit,
                                      fields.protectedHeader, l.joseHeader))
      alg(l) == Const(l, "alg", validateJweAlg(Get(prot, "alg")))
      enc(l) == Const(l, "enc", validateJweEnc(Get(prot, "enc")))
  IN
  Bind(Bind(Bind(Bind(Bind(Bind(Ok(EmptyObject),
    ecdhCurve), yourPublicKey), joseHeader), crit), alg), enc)

\* encrypt, from the try block to the call of aes.encrypt: the locals the
\* continuation needs and the new value of #protectedHeader, or what was thrown
EncryptPrepare(fields, plaintext, yourJwkPublicKey, options, myPrivateKey) ==
  LET prot == ObjectOf(fields.protectedHeader)
      derived(l) ==
        Const(l, "derived",
              deriveEncryptionKey(l.alg, l.enc, l.ecdhCurve, l.yourPublicKey,
                                  fields.keyManagementParameters, myPrivateKey))
      updated(l) ==
        Const(l, "protectedHeader",
              Ok(updateProtectedHeader(fields.protectedHeader, Some(l.derived.parameters))))
      protectedHeaderB64U(l) ==
        Const(l, "protectedHeaderB64U", Ok(encodeBase64UrlHeader(l.protectedHeader)))
      aadB64U(l) ==
        Const(l, "aadB64U", Ok(IF IsDefined(fields.aad)
                                 THEN Some(encodeBase64Url(ValueOf(fields.aad)))
                               ELSE Undefined))
      locals(l) ==
        Ok([ enc |-> l.enc, plaintext |-> plaintext, cek |-> l.derived.cek,
             encryptedKey |-> l.derived.encryptedKey,
             aad |-> encodeAesAad(l.protectedHeaderB64U, l.aadB64U),
             protectedHeaderB64U |-> l.protectedHeaderB64U, aadB64U |-> l.aadB64U,
             protectedHeader |-> l.protectedHeader ])
  IN
  Bind(Bind(Bind(Bind(Bind(EncryptValidate(fields, yourJwkPublicKey, options),
    derived), updated), protectedHeaderB64U), aadB64U), locals)

\* the checks encrypt makes before its try block: the error thrown, if any
EncryptShapeError(plaintext, yourJwkPublicKey) ==
  IF ~IsDefined(plaintext) THEN Some(Error("JweInvalid", "plaintext is missing"))
  ELSE IF ValueOf(plaintext) = NotUint8Array
    THEN Some(Error("JweInvalid", "plaintext must be a Uint8Array"))
  ELSE IF ~IsDefined(yourJwkPublicKey)
    THEN Some(Error("JweInvalid", "yourJwkPublicKey is missing"))
  ELSE IF ~ValueOf(yourJwkPublicKey).plain
    THEN Some(Error("JweInvalid", "yourJwkPublicKey must be a plain object"))
  ELSE IF ~IsDefined(ValueOf(yourJwkPublicKey).crv)
    THEN Some(Error("JweInvalid", "yourJwkPublicKey.crv is missing"))
  ELSE Undefined


(***************************************************************************)
(* The callers.  env names what the callers of a run do: "roundtrip" uses  *)
(* the builder as documented over every enc and curve, "tamper" lets an    *)
(* attacker rewrite the JWE, "options" passes allow-lists and other keys   *)
(* to decrypt, "crit" exercises critical parameters, "misuse" passes       *)
(* malformed arguments and headers, "builder" repeats setters and calls    *)
(* them while encrypt is suspended and after it, "setters" calls setters   *)
(* only, any of them again and again and also with undefined, "wrapper"    *)
(* calls deriveDecryptionKeyWithMitigation on its own.                     *)
(***************************************************************************)
JweEnvs ==
  {"roundtrip", "tamper", "options", "crit", "misuse", "builder", "setters", "wrapper"}

Recipients(e) ==
  IF e = "roundtrip" THEN [crv : EcdhCurveNames, d : 1..MaxScalar]
  ELSE [crv : {"P-256"}, d : {1}]

EcdhHeader(enc) == [alg |-> "ECDH-ES", enc |-> enc]

ProtectedHeaderInputs(e) ==
  CASE e = "roundtrip" -> {EcdhHeader(JweEncs[i]) : i \in 1..Len(JweEncs)}
    [] e \in {"tamper", "options"} -> {EcdhHeader("A256GCM")}
    [] e = "crit" ->
         { Spread(EcdhHeader("A128GCM"), [crit |-> <<"ext">>, ext |-> "v"]),
           Spread(EcdhHeader("A128GCM"), [crit |-> <<"ext">>]),
           Spread(EcdhHeader("A128GCM"), [crit |-> <<"ext", "unk">>, ext |-> "v"]),
           Spread(EcdhHeader("A128GCM"), [crit |-> <<"ext">>, ext |-> JNull]),
           Spread(EcdhHeader("A128GCM"), [crit |-> <<>>]),
           Spread(EcdhHeader("A128GCM"), [crit |-> <<"">>]),
           Spread(EcdhHeader("A128GCM"), [crit |-> NotArray]),
           EcdhHeader("A128GCM") }
    [] e = "misuse" ->
         { EcdhHeader("A128CBC-HS256"), [alg |-> "ECDH-ES"], [enc |-> "A128GCM"],
           EcdhHeader("A512GCM"), [alg |-> "RSA-OAEP", enc |-> "A128GCM"],
           Spread(EcdhHeader("A128GCM"), [zip |-> "DEF"]),
           Spread(EcdhHeader("A128GCM"), [kid |-> "key-1"]),
           Spread(EcdhHeader("A128GCM"),
                  [epk |-> HonestEpk(3), apu |-> encodeBase64Url(PartyInfoList[3])]),
           EmptyObject, NotPlainObject }
    [] e \in {"builder", "setters"} -> { EcdhHeader("A128GCM") }
    [] e = "wrapper" -> {}

SharedUnprotectedHeaderInputs(e) ==
  CASE e = "crit" -> { [ext |-> "v"], [crit |-> <<"ext">>] }
    [] e = "misuse" ->
         { [enc |-> "A128GCM"], [kid |-> "key-1"], [zip |-> "DEF"], NotPlainObject }
    [] e = "builder" ->
         \* a caller who calls the setter again passes another header
         IF setterCalls.sharedUnprotectedHeader = <<>> THEN { [kid |-> "key-1"] }
         ELSE { [kid |-> "key-2"] }
    [] e = "setters" -> { [kid |-> "key-1"] }
    [] OTHER -> {}

UnprotectedHeaderInputs(e) ==
  CASE e = "crit" -> { [ext |-> "v"] }
    [] e = "misuse" -> { [kid |-> "key-1"] }
    [] e = "setters" -> { [cty |-> "text"] }
    [] OTHER -> {}

PartyInfo(apu, apv) == [apu |-> apu, apv |-> apv]

KeyManagementParametersInputs(e) ==
  CASE e = "roundtrip" ->
         { PartyInfo(Some(<<>>), Some(PartyInfoList[2])),
           PartyInfo(Some(PartyInfoList[3]), Undefined),
           PartyInfo(Undefined, Some(<<>>)) }
    [] e = "misuse" ->
         { PartyInfo(Some(PartyInfoList[4]), Undefined),
           PartyInfo(Undefined, Some(NotUint8Array)),
           PartyInfo(Some(PartyInfoList[2]), Some(PartyInfoList[2])) }
    [] e = "setters" -> { PartyInfo(Some(PartyInfoList[2]), Undefined) }
    [] OTHER -> {}

AadInputs(e) ==
  CASE e = "roundtrip" -> { <<>> }
    [] e = "options" -> { <<1, 2>> }
    [] e = "builder" -> { <<1, 2>>, <<3>> }
    [] OTHER -> {}

PlaintextInputs(e) ==
  CASE e = "roundtrip" -> { Some(<<>>), Some(<<80, 81>>) }
    [] e = "misuse" -> { Some(<<80>>), Undefined, Some(NotUint8Array) }
    [] e \in {"setters", "wrapper"} -> {}
    [] OTHER -> { Some(<<80, 81>>) }

RecipientPublicJwk(r) == toJwkPublicKey(getPublicKey(r.crv, r.d))
RecipientPrivateJwk(r) == toJwkPrivateKey(r.crv, r.d)

\* the ways callers get a JWK argument wrong
MalformedJwks(jwk, crv, member) ==
  { Undefined,
    Some([jwk EXCEPT !.plain = FALSE]),
    Some([jwk EXCEPT !.crv = Undefined]),
    Some([jwk EXCEPT !.crv = Some(crv)]),
    Some([jwk EXCEPT ![member] = Undefined]) }

EncryptKeyInputs(e, r) ==
  IF e = "misuse"
    THEN { Some(RecipientPublicJwk(r)) }
         \cup MalformedJwks(RecipientPublicJwk(r), "secp256k1", "y")
  ELSE { Some(RecipientPublicJwk(r)) }

WithCrit(crit) == [NoOptions EXCEPT !.crit = crit]

EncryptOptionsInputs(e) ==
  IF e = "crit" THEN { NoOptions, WithCrit([ext |-> TRUE]), WithCrit([ext |-> FALSE]) }
  ELSE { NoOptions }

\* what callers pass to a setter: a value, and for the callers who repeat
\* setters also undefined
ArgumentsOf(values, e) ==
  {Some(v) : v \in values} \cup (IF e \in {"setters", "sign-builder"} THEN {Undefined} ELSE {})

\* the callers who repeat setters repeat one setter of a builder
RepeatsOnly(field, calls) ==
  \A other \in (DOMAIN calls) \ {field} : Len(calls[other]) <= 1

\* the record of one call of a setter
SetterCall(value, threw) ==
  [value |-> IsDefined(value), threw |-> threw, passed |-> value]

\* a builder none of whose once-only setters has been called
NoSetterCalls(builder) == [field \in (DOMAIN builder) \ {"aad"} |-> <<>>]

\* callers set each field at most once and only before they call encrypt;
\* callers of "builder" also call a setter a second time and while encrypt is
\* suspended or after it, callers of "setters" repeat a setter
CallerMaySet(field) ==
  \/ env = "setters" /\ RepeatsOnly(field, setterCalls)
  \/ env = "builder" /\ (IF field = "aad" THEN TRUE ELSE Len(setterCalls[field]) < 2)
  \/ (encryptCall.pc = "idle" /\ ~IsDefined(encrypter[field]))


NewEncrypter ==
  [ protectedHeader |-> Undefined, sharedUnprotectedHeader |-> Undefined,
    unprotectedHeader |-> Undefined, aad |-> Undefined,
    keyManagementParameters |-> Undefined ]

\* a setter that stores its argument whatever its field holds
SetOverwrite(field, value) ==
  /\ CallerMaySet(field)
  /\ Len(setterCalls[field]) < MaxSetterCalls
  /\ encrypter' = [encrypter EXCEPT ![field] = value]
  /\ thrown' = Undefined
  /\ setterCalls' = [setterCalls EXCEPT ![field] = Append(@, SetterCall(value, FALSE))]
  /\ UNCHANGED << jwsVars, env, recipient, encryptCall, aesLog, wire, decryptCall >>

\* a setter that can only be called once: it throws when its field holds a
\* value, and stores its argument, which may be undefined, when not
SetOnce(field, value) ==
  /\ CallerMaySet(field)
  /\ Len(setterCalls[field]) < MaxSetterCalls
  /\ IF IsDefined(encrypter[field])
       THEN /\ thrown' = Some(Error("JweInvalid", "can only be called once"))
            /\ UNCHANGED encrypter
       ELSE /\ encrypter' = [encrypter EXCEPT ![field] = value]
            /\ thrown' = Undefined
  /\ setterCalls' = [setterCalls EXCEPT ![field] =
                       Append(@, SetterCall(value, IsDefined(encrypter[field])))]
  /\ UNCHANGED << jwsVars, env, recipient, encryptCall, aesLog, wire, decryptCall >>

\* keyManagementParameters(parameters)
SetKeyManagementParameters ==
  \E parameters \in ArgumentsOf(KeyManagementParametersInputs(env), env) :
    SetOnce("keyManagementParameters", parameters)

\* protectedHeader(protectedHeader)
SetProtectedHeader ==
  \E header \in ArgumentsOf(ProtectedHeaderInputs(env), env) :
    SetOnce("protectedHeader", header)

\* sharedUnprotectedHeader(sharedUnprotectedHeader)
SetSharedUnprotectedHeader ==
  \E header \in ArgumentsOf(SharedUnprotectedHeaderInputs(env), env) :
    SetOnce("sharedUnprotectedHeader", header)

\* unprotectedHeader(unprotectedHeader)
SetUnprotectedHeader ==
  \E header \in ArgumentsOf(UnprotectedHeaderInputs(env), env) :
    SetOnce("unprotectedHeader", header)

\* additionalAuthenticatedData(aad)
SetAdditionalAuthenticatedData ==
  /\ CallerMaySet("aad")
  /\ \E aad \in AadInputs(env) : encrypter' = [encrypter EXCEPT !.aad = Some(aad)]
  /\ thrown' = Undefined
  /\ UNCHANGED << jwsVars, env, recipient, setterCalls, encryptCall, aesLog, wire, decryptCall >>

\* callers call encrypt once on an instance; callers of "builder" call it
\* again, once the call before has settled or while it is suspended
CallerMayEncrypt ==
  IF encryptCall.pc = "idle" THEN TRUE
  ELSE /\ env = "builder"
       /\ Len(encryptCall.earlier) + Len(encryptCall.pending) < MaxReuse

\* the outcomes of the calls that have settled, the last one included
Settled(call) ==
  IF call.pc \in {"idle", "awaitAes"} THEN call.earlier
  ELSE Append(call.earlier, call.result)

\* the frames of the calls that are suspended at aes.encrypt, the last one included
Suspended(call) ==
  IF call.pc = "awaitAes"
    THEN Append(call.pending, [called |-> call.called, locals |-> call.locals])
  ELSE call.pending

\* encrypt up to its await of aes.encrypt; myPrivateKey is the ephemeral draw
\* a caller who uses the builder again encrypts another plaintext with it
RepeatedPlaintextInputs(e) ==
  IF encryptCall.pc = "idle" THEN PlaintextInputs(e) ELSE { Some(<<80>>) }

Encrypt ==
  /\ CallerMayEncrypt
  /\ thrown' = Undefined
  /\ \E plaintext \in RepeatedPlaintextInputs(env), yourJwkPublicKey \in EncryptKeyInputs(env, recipient),
        options \in EncryptOptionsInputs(env), myPrivateKey \in 1..MaxEphemeral :
     LET call == [NoCall EXCEPT !.called = [ plaintext |-> plaintext,
                                             yourJwkPublicKey |-> yourJwkPublicKey,
                                             options |-> options, fields |-> encrypter ],
                                !.earlier = Settled(encryptCall),
                                !.pending = Suspended(encryptCall)]
         steps ==
           IF EncryptValidate(encrypter, ValueOf(yourJwkPublicKey), options).ok
             THEN <<"validate", "deriveEncryptionKey">>
           ELSE <<"validate">>
         try(prepared) ==
           IF ~prepared.ok THEN
             /\ encryptCall' = [call EXCEPT !.pc = "rejected", !.cause = Some(prepared.err),
                                            !.result = Throw(EncryptCatch(prepared.err)),
                                            !.steps = steps]
             /\ UNCHANGED encrypter
           ELSE
             /\ encryptCall' = [call EXCEPT !.pc = "awaitAes", !.locals = prepared.v,
                                            !.steps = Append(steps, "aes.encrypt")]
             /\ encrypter' = [encrypter EXCEPT !.protectedHeader = prepared.v.protectedHeader]
         check(shape) ==
           IF IsDefined(shape) THEN
             /\ encryptCall' = [call EXCEPT !.pc = "rejected", !.result = Throw(ValueOf(shape))]
             /\ UNCHANGED encrypter
           ELSE try(EncryptPrepare(encrypter, ValueOf(plaintext), ValueOf(yourJwkPublicKey),
                                   options, myPrivateKey))
     IN check(EncryptShapeError(plaintext, yourJwkPublicKey))
  /\ UNCHANGED << jwsVars, env, recipient, setterCalls, aesLog, wire, decryptCall >>

\* an assembly that encodes the builder's protected header after the await
AssembleJweFromBuilder(locals, out, fields) ==
  [ plain |-> TRUE,
    ciphertext |-> Some(encodeBase64Url(out.ciphertext)),
    iv |-> Some(encodeBase64Url(out.iv)),
    tag |-> Some(encodeBase64Url(out.tag)),
    protected |-> Some(encodeBase64UrlHeader(fields.protectedHeader)),
    encrypted_key |-> IF IsDefined(locals.encryptedKey)
                        THEN Some(encodeBase64Url(ValueOf(locals.encryptedKey)))
                        ELSE Undefined,
    aad |-> IF IsDefined(fields.aad) THEN locals.aadB64U ELSE Undefined,
    unprotected |-> fields.sharedUnprotectedHeader,
    header |-> fields.unprotectedHeader ]

\* an assembly that always writes the member unprotected
AssembleJweWithUnprotected(locals, out, fields) ==
  [ plain |-> TRUE,
    ciphertext |-> Some(encodeBase64Url(out.ciphertext)),
    iv |-> Some(encodeBase64Url(out.iv)),
    tag |-> Some(encodeBase64Url(out.tag)),
    protected |-> Some(locals.protectedHeaderB64U),
    encrypted_key |-> IF IsDefined(locals.encryptedKey)
                        THEN Some(encodeBase64Url(ValueOf(locals.encryptedKey)))
                        ELSE Undefined,
    aad |-> IF IsDefined(fields.aad) THEN locals.aadB64U ELSE Undefined,
    unprotected |-> Some(ObjectOf(fields.sharedUnprotectedHeader)),
    header |-> fields.unprotectedHeader ]

\* the flattened JWE encrypt assembles once aes.encrypt has returned
AssembleJwe(locals, out, fields) ==
  [ plain |-> TRUE,
    ciphertext |-> Some(encodeBase64Url(out.ciphertext)),
    iv |-> Some(encodeBase64Url(out.iv)),
    tag |-> Some(encodeBase64Url(out.tag)),
    protected |-> Some(locals.protectedHeaderB64U),
    encrypted_key |-> IF IsDefined(locals.encryptedKey)
                        THEN Some(encodeBase64Url(ValueOf(locals.encryptedKey)))
                        ELSE Undefined,
    aad |-> IF IsDefined(fields.aad) THEN locals.aadB64U ELSE Undefined,
    unprotected |-> fields.sharedUnprotectedHeader,
    header |-> fields.unprotectedHeader ]

\* aes.encrypt returns (r is its draw of the IV) and encrypt runs to its end
EncryptResume ==
  /\ encryptCall.pc = "awaitAes"
  /\ \E r \in 1..MaxRandom :
     LET locals == encryptCall.locals
         out == AesEncryptOutput(locals.plaintext, r, aesLog)
     IN
     /\ aesLog' = aesLog \cup {AesEntry(locals.enc, locals.cek, locals.aad, locals.plaintext, out)}
     /\ encryptCall' = [encryptCall EXCEPT !.pc = "resolved",
                                           !.result = Ok(AssembleJwe(locals, out, encrypter))]
  /\ UNCHANGED << jwsVars, env, recipient, setterCalls, encrypter, thrown, wire, decryptCall >>

\* aes.encrypt returns to a call of encrypt that was suspended when another
\* call was made, and that call runs to its end
EncryptResumePending ==
  \E i \in DOMAIN encryptCall.pending, r \in 1..MaxRandom :
    LET locals == encryptCall.pending[i].locals
        out == AesEncryptOutput(locals.plaintext, r, aesLog)
        others == SelectSeq([j \in DOMAIN encryptCall.pending |-> j], LAMBDA j : j # i)
    IN
    /\ aesLog' = aesLog \cup {AesEntry(locals.enc, locals.cek, locals.aad, locals.plaintext, out)}
    /\ encryptCall' = [encryptCall EXCEPT
                         !.pending = [k \in DOMAIN others |-> encryptCall.pending[others[k]]],
                         !.earlier = Append(@, Ok(AssembleJwe(locals, out, encrypter)))]
    /\ UNCHANGED << jwsVars, env, recipient, setterCalls, encrypter, thrown, wire, decryptCall >>


(***************************************************************************)
(* FlattenedDecrypter (src/jwe/flattened/FlattenedDecrypter.ts).           *)
(***************************************************************************)
\* src/jwe/flattened/utils/validateFlattenedJwe.ts
validateFlattenedJwe(jwe) ==
  LET iv(l) == Const(l, "iv", decodeRequiredBase64Url(jwe.iv))
      ciphertext(l) == Const(l, "ciphertext", decodeRequiredBase64Url(jwe.ciphertext))
      tag(l) == Const(l, "tag", decodeRequiredBase64Url(jwe.tag))
      encryptedKey(l) == Const(l, "encryptedKey", decodeOptionalBase64Url(jwe.encrypted_key))
      aad(l) == Const(l, "aad", decodeOptionalBase64Url(jwe.aad))
      headers(l) ==
        IF IsDefined(jwe.header) /\ ~isPlainObject(ValueOf(jwe.header))
          THEN Throw(Error("JweInvalid", "JWE Per-Recipient Unprotected Header is invalid"))
        ELSE IF IsDefined(jwe.unprotected) /\ ~isPlainObject(ValueOf(jwe.unprotected))
          THEN Throw(Error("JweInvalid", "JWE Shared Unprotected Header is invalid"))
        ELSE Ok(l)
      parsedProtected(l) == Const(l, "parsedProtected", parseBase64UrlHeader(jwe.protected))
      joseHeader(l) ==
        Const(l, "joseHeader",
              mergeJweHeaders(Some(l.parsedProtected), jwe.unprotected, jwe.header))
  IN
  IF ~jwe.plain THEN Throw(Error("JweInvalid", "Flattened JWE must be a plain object"))
  ELSE Bind(Bind(Bind(Bind(Bind(Bind(Bind(Bind(Ok(EmptyObject),
         iv), ciphertext), tag), encryptedKey), aad), headers), parsedProtected), joseHeader)

\* the checks decrypt makes before its try block: the error thrown, if any
DecryptShapeError(jwe, myJwkPrivateKey) ==
  IF ~IsDefined(jwe) THEN Some(Error("JweInvalid", "Flattened JWE is missing"))
  ELSE IF ~ValueOf(jwe).plain
    THEN Some(Error("JweInvalid", "Flattened JWE must be a plain object"))
  ELSE IF ~IsDefined(myJwkPrivateKey)
    THEN Some(Error("JweInvalid", "myJwkPrivateKey is missing"))
  ELSE IF ~ValueOf(myJwkPrivateKey).plain
    THEN Some(Error("JweInvalid", "myJwkPrivateKey must be a plain object"))
  ELSE IF ~IsDefined(ValueOf(myJwkPrivateKey).crv)
    THEN Some(Error("JweInvalid", "myJwkPrivateKey.crv is missing"))
  ELSE Undefined

\* decrypt, from the try block to the call of deriveDecryptionKeyWithMitigation
DecryptValidate(jwe, myJwkPrivateKey, options) ==
  LET ecdhCurve(l) == Const(l, "ecdhCurve", createEcdhCurve(ValueOf(myJwkPrivateKey.crv)))
      myPrivateKey(l) ==
        Const(l, "myPrivateKey", toRawPrivateKey(l.ecdhCurve, myJwkPrivateKey))
      validated(l) == Const(l, "validated", validateFlattenedJwe(jwe))
      crit(l) ==
        Const(l, "crit", validateCrit("JweInvalid", EmptyObject, options.crit,
                                      Some(l.validated.parsedProtected),
                                      l.validated.joseHeader))
      alg(l) == Const(l, "alg", validateJweAlg(Get(l.validated.joseHeader, "alg")))
      enc(l) == Const(l, "enc", validateJweEnc(Get(l.validated.joseHeader, "enc")))
      algAllowed(l) ==
        Const(l, "algAllowed", checkJweAlgAllowed(l.alg, options.keyManagementAlgorithms))
      encAllowed(l) ==
        Const(l, "encAllowed", checkJweEncAllowed(l.enc, options.contentEncryptionAlgorithms))
      locals(l) ==
        Ok([ ecdhCurve |-> l.ecdhCurve, myPrivateKey |-> l.myPrivateKey,
             iv |-> l.validated.iv, ciphertext |-> l.validated.ciphertext,
             tag |-> l.validated.tag, aad |-> l.validated.aad,
             parsedProtected |-> l.validated.parsedProtected,
             alg |-> l.alg, enc |-> l.enc ])
  IN
  Bind(Bind(Bind(Bind(Bind(Bind(Bind(Bind(Bind(Ok(EmptyObject),
    ecdhCurve), myPrivateKey), validated), crit), alg), enc), algAllowed), encAllowed),
    locals)

\* a sleep of 200 ms plus up to 300 ms for each step of the draw
MitigationDelayPerStep(k) == 200 + (k * 300)

\* a sleep that lacks the 200 ms every mitigated failure waits at least
MitigationDelayWithoutFloor(k) == (k * 300) \div RandSteps

\* src/jwe/key-management/generateMitigatedCek.ts: the argument of sleep when
\* Math.random() returns k / RandSteps
MitigationDelay(k) == 200 + ((k * 300) \div RandSteps)

\* a mitigated CEK as long as the keys of the curve, whatever enc asks for
MitigatedCekOfKeyLength(enc, r) == Ok(randomBytes(32, r))

\* src/jwe/key-management/generateMitigatedCek.ts after the sleep; r is the
\* draw of curve.randomBytes
MitigatedCek(enc, r) ==
  LET random(cekBitLength) == Ok(randomBytes(cekBitLength \div 8, r)) IN
  Bind(cekBitLengthByEnc(enc), random)

\* a catch block that lets the error through
DecryptRethrow(error) == error

\* the catch block of decrypt: whatever was thrown becomes one error
DecryptCatch(error) == Error("JweInvalid", "Failed to decrypt JWE")

\* a call of decrypt: besides its locals and outcome, the steps it has taken,
\* what deriveDecryptionKey returned or threw, and the time it has slept (ms)
NoDecryptCall ==
  [ pc |-> "idle", called |-> EmptyObject, locals |-> EmptyObject, cause |-> Undefined,
    result |-> Undefined, steps |-> <<>>, derivation |-> Undefined, delay |-> 0 ]


\* the options and keys the recipient's caller passes to decrypt
Allow(member, list) == [NoOptions EXCEPT ![member] = Some(list)]

DecryptOptionsInputs(e) ==
  CASE e = "options" ->
         { NoOptions,
           Allow("keyManagementAlgorithms", <<"ECDH-ES">>),
           Allow("keyManagementAlgorithms", <<"RSA-OAEP">>),
           Allow("keyManagementAlgorithms", NotArray),
           Allow("contentEncryptionAlgorithms", <<"A256GCM">>),
           Allow("contentEncryptionAlgorithms", <<"A128GCM", "A192GCM">>),
           Allow("contentEncryptionAlgorithms", <<NonString>>) }
    [] e = "crit" -> { NoOptions, WithCrit([ext |-> TRUE]), WithCrit([ext |-> FALSE]) }
    [] OTHER -> { NoOptions }

OtherScalar(d) == (d % MaxScalar) + 1

DecryptKeyInputs(e, r) ==
  CASE e = "options" ->
         { Some(RecipientPrivateJwk(r)),
           Some(toJwkPrivateKey(r.crv, OtherScalar(r.d))),
           Some(toJwkPrivateKey("P-384", r.d)) }
    [] e = "misuse" ->
         { Some(RecipientPrivateJwk(r)) }
         \cup MalformedJwks(RecipientPrivateJwk(r), "secp256k1", "d")
    [] e = "builder" -> {}
    [] OTHER -> { Some(RecipientPrivateJwk(r)) }

\* the JWE reaches the recipient as encrypt returned it
Deliver ==
  /\ encryptCall.pc = "resolved"
  /\ ~IsDefined(wire)
  /\ wire' = Some(encryptCall.result.v)
  /\ UNCHANGED << jwsVars, env, recipient, setterCalls, encrypter, thrown, encryptCall, aesLog, decryptCall >>

\* what an attacker puts in place of a member of the JWE
MemberTamperValues(jwe, member) ==
  CASE member \in {"iv", "tag"} ->
         { Undefined, Some(NonStringChars), Some(<<33>>),
           Some(encodeBase64Url(<<(decodeB64U(ValueOf(jwe[member])).v[1] + 1) % 256>>)) }
    [] member = "ciphertext" ->
         { Undefined, Some(<<33>>),
           Some(encodeBase64Url(decodeB64U(ValueOf(jwe.ciphertext)).v \o <<0>>)) }
    [] member = "aad" -> { Undefined, Some(<<>>), Some(<<33>>), Some(encodeBase64Url(<<9>>)) }
    [] member = "encrypted_key" -> { Some(encodeBase64Url(<<5>>)), Some(<<33>>) }
    [] member = "protected" ->
         { Undefined, Some(NonStringChars), Some(<<33>>), Some(<<>>),
           Some(encodeBase64Url(<<1>>)), Some(encodeBase64Url(JsonNumberText)),
           Some(encodeBase64Url(JsonStringify(EmptyObject))) }
    [] member \in {"header", "unprotected"} ->
         { Some([kid |-> "key-1"]), Some([alg |-> "ECDH-ES"]), Some(NotPlainObject),
           Some([crit |-> <<"kid">>]), Some([zip |-> "DEF"]) }

TamperMember(member) ==
  /\ env = "tamper"
  /\ IsDefined(wire)
  /\ encryptCall.pc = "resolved"
  /\ wire = Some(encryptCall.result.v)
  /\ \E value \in MemberTamperValues(ValueOf(wire), member) :
       /\ wire' = Some([ValueOf(wire) EXCEPT ![member] = value])
       /\ wire' # wire
  /\ UNCHANGED << jwsVars, env, recipient, setterCalls, encrypter, thrown, encryptCall, aesLog, decryptCall >>

\* what an attacker puts in place of a parameter of the protected header
ProtectedTamperValues(key) ==
  CASE key = "alg" -> {Some("RSA-OAEP"), Some(""), Some(NonString), Undefined}
    [] key = "enc" -> {Some("A128GCM"), Some("A512GCM"), Some(NonString), Undefined}
    [] key = "crit" -> {Some(<<"unk">>), Some(<<"ext">>), Some(<<"kid">>), Some(NotArray)}
    [] key = "zip" -> {Some("DEF")}
    [] key = "kid" -> {Some("key-1")}
    [] key = "epk" -> {Some(HonestEpk(3)), Some(HonestEpk(33)), Undefined}
                      \cup {Some(BadEpkList[i]) : i \in 1..Len(BadEpkList)}
    [] key \in {"apu", "apv"} ->
         {Some(PartyInfoJsonValues[i]) : i \in 1..Len(PartyInfoJsonValues)} \cup {Undefined}
    [] OTHER -> {}

RewriteProtected(jwe, key, value) ==
  LET rewrite(header) ==
        LET others == [k \in (DOMAIN header) \ {key} |-> header[k]] IN
        IF IsDefined(value) THEN Spread(others, key :> ValueOf(value)) ELSE others
      reencode(header) == Ok(encodeBase64UrlHeader(Some(rewrite(header))))
      parse(bytes) == Bind(JsonParse(bytes), reencode)
  IN [jwe EXCEPT !.protected = Some(Bind(decodeB64U(ValueOf(jwe.protected)), parse).v)]

TamperProtected(key) ==
  /\ env = "tamper"
  /\ IsDefined(wire)
  /\ encryptCall.pc = "resolved"
  /\ wire = Some(encryptCall.result.v)
  /\ \E value \in ProtectedTamperValues(key) :
       /\ wire' = Some(RewriteProtected(ValueOf(wire), key, value))
       /\ wire' # wire
  /\ UNCHANGED << jwsVars, env, recipient, setterCalls, encrypter, thrown, encryptCall, aesLog, decryptCall >>

\* decrypt is called with the JWE delivered; callers of "misuse" also call it
\* with no JWE at all
DeliveredOrMissing == IsDefined(wire) \/ (env = "misuse" /\ encryptCall.pc = "idle")

\* decrypt calling deriveDecryptionKey itself: a failure goes to its catch block
deriveDecryptionKeyWithoutMitigation(call, params, k) ==
  LET direct(derived) ==
        IF derived.ok THEN
          [call EXCEPT !.pc = "derived", !.locals = [cek |-> derived.v] @@ params,
                       !.steps = Append(@, "deriveDecryptionKey"),
                       !.derivation = Some(derived)]
        ELSE
          [call EXCEPT !.pc = "rejected", !.locals = [cek |-> <<>>] @@ params,
                       !.steps = Append(@, "deriveDecryptionKey"),
                       !.derivation = Some(derived), !.cause = Some(derived.err),
                       !.result = Throw(Error("JweInvalid", "Failed to decrypt JWE"))]
  IN direct(deriveDecryptionKey(params.alg, params.enc, params.ecdhCurve, params.myPrivateKey,
                                params.parsedProtected))

\* unnamed/part_005 deriveDecryptionKeyWithMitigation up to its first
\* suspension, as the frame of the call it runs in: params are its parameters,
\* k is the draw of Math.random() should generateMitigatedCek run
deriveDecryptionKeyWithMitigation(call, params, k) ==
  LET wrap(derived) ==
        IF derived.ok THEN
          [call EXCEPT !.pc = "derived", !.locals = [cek |-> derived.v] @@ params,
                       !.steps = Append(@, "wrapper"),
                       !.derivation = Some(derived)]
        ELSE
          [call EXCEPT !.pc = "sleeping", !.locals = [cek |-> <<>>] @@ params,
                       !.steps = @ \o <<"wrapper", "sleep">>,
                       !.derivation = Some(derived),
                       !.delay = MitigationDelay(k)]
  IN wrap(deriveDecryptionKey(params.alg, params.enc, params.ecdhCurve, params.myPrivateKey,
                              params.parsedProtected))

\* the protected headers the callers of "wrapper" pass
WrapperHeaderInputs ==
  { [epk |-> HonestEpk(3)],
    [epk |-> HonestEpk(3), apu |-> encodeBase64Url(<<65>>)],
    [epk |-> HonestEpk(3), apu |-> PartyInfoJsonValues[4]],
    [epk |-> HonestEpk(13)],
    [epk |-> BadEpkList[7]],
    EmptyObject }

\* deriveDecryptionKeyWithMitigation(params), called on its own
DeriveWithMitigation ==
  /\ env = "wrapper"
  /\ decryptCall.pc = "idle"
  /\ \E alg \in {"ECDH-ES", "RSA-OAEP"}, i \in 1..Len(JweEncs),
        protectedHeader \in WrapperHeaderInputs, k \in 0..(RandSteps - 1) :
       LET params == [ alg |-> alg, enc |-> JweEncs[i], ecdhCurve |-> recipient.crv,
                       myPrivateKey |-> recipient.d, parsedProtected |-> protectedHeader ]
       IN decryptCall' =
            deriveDecryptionKeyWithMitigation([NoDecryptCall EXCEPT !.called = params],
                                              params, k)
  /\ UNCHANGED << jwsVars, env, recipient, setterCalls, encrypter, thrown, encryptCall, aesLog, wire >>

\* decrypt up to its await of deriveDecryptionKeyWithMitigation (unnamed/part_005);
\* k is the draw of Math.random() should the wrapper need it
Decrypt ==
  /\ decryptCall.pc = "idle"
  /\ DeliveredOrMissing
  /\ \E myJwkPrivateKey \in DecryptKeyInputs(env, recipient),
        options \in DecryptOptionsInputs(env), k \in 0..(RandSteps - 1) :
     LET jwe == wire
         call == [NoDecryptCall EXCEPT !.called = [ jwe |-> jwe,
                                                    myJwkPrivateKey |-> myJwkPrivateKey,
                                                    options |-> options ]]
         try(validated) ==
           IF ~validated.ok THEN
             decryptCall' = [call EXCEPT !.pc = "rejected", !.cause = Some(validated.err),
                                         !.result = Throw(DecryptCatch(validated.err)),
                                         !.steps = <<"validate">>]
           ELSE
             decryptCall' =
               deriveDecryptionKeyWithMitigation([call EXCEPT !.steps = <<"validate">>],
                                                 validated.v, k)
         check(shape) ==
           IF IsDefined(shape) THEN
             decryptCall' = [call EXCEPT !.pc = "rejected", !.result = Throw(ValueOf(shape))]
           ELSE try(DecryptValidate(ValueOf(jwe), ValueOf(myJwkPrivateKey), options))
     IN check(DecryptShapeError(jwe, myJwkPrivateKey))
  /\ UNCHANGED << jwsVars, env, recipient, setterCalls, encrypter, thrown, encryptCall, aesLog, wire >>

\* the timer of sleep fires and generateMitigatedCek runs to its end
MitigationWake ==
  /\ decryptCall.pc = "sleeping"
  /\ \E r \in 1..MaxRandom :
     LET cek == MitigatedCek(decryptCall.locals.enc, r) IN
     IF cek.ok THEN
       decryptCall' = [decryptCall EXCEPT !.pc = "derived",
                                          !.locals = [@ EXCEPT !.cek = cek.v],
                                          !.steps = Append(@, "randomBytes")]
     ELSE
       decryptCall' = [decryptCall EXCEPT !.pc = "rejected", !.cause = Some(cek.err),
                                          !.result = Throw(DecryptCatch(cek.err))]
  /\ UNCHANGED << jwsVars, env, recipient, setterCalls, encrypter, thrown, encryptCall, aesLog, wire >>

\* the wrapper's promise resolves: decrypt builds the AAD and calls aes.decrypt
DecryptResume ==
  /\ decryptCall.pc = "derived"
  /\ Has(decryptCall.called, "jwe")
  /\ LET jwe == ValueOf(decryptCall.called.jwe) IN
     decryptCall' = [decryptCall EXCEPT
       !.pc = "awaitAes",
       !.locals = [aesAad |-> encodeAesAad(ValueOf(jwe.protected), jwe.aad)] @@ @,
       !.steps = Append(@, "aes.decrypt")]
  /\ UNCHANGED << jwsVars, env, recipient, setterCalls, encrypter, thrown, encryptCall, aesLog, wire >>

\* what decrypt returns once aes.decrypt has returned the plaintext
DecryptResult(jwe, locals, plaintext) ==
  [ plaintext |-> plaintext,
    protectedHeader |-> locals.parsedProtected,
    additionalAuthenticatedData |-> IF IsDefined(jwe.aad) THEN locals.aad ELSE Undefined,
    sharedUnprotectedHeader |-> jwe.unprotected,
    unprotectedHeader |-> jwe.header ]

\* aes.decrypt settles and decrypt runs to its end
AesDecryptReturn ==
  /\ decryptCall.pc = "awaitAes"
  /\ LET locals == decryptCall.locals
         out == AesDecryptOutput(aesLog, locals.enc, locals.cek, locals.aesAad,
                                 locals.iv, locals.ciphertext, locals.tag)
     IN
     IF out.ok THEN
       decryptCall' = [decryptCall EXCEPT !.pc = "resolved",
                                          !.result = Ok(DecryptResult(ValueOf(decryptCall.called.jwe),
                                                                     locals, out.v))]
     ELSE
       decryptCall' = [decryptCall EXCEPT !.pc = "rejected", !.cause = Some(out.err),
                                          !.result = Throw(DecryptCatch(out.err))]
  /\ UNCHANGED << jwsVars, env, recipient, setterCalls, encrypter, thrown, encryptCall, aesLog, wire >>

(***************************************************************************)
(* FlattenedSigner (unnamed/part_033), CompactSigner, FlattenedVerifier    *)
(* and CompactVerifier.  sign and verify have no suspension point: each    *)
(* call is one step.                                                       *)
(***************************************************************************)
JwsEnvs == {"sign-roundtrip", "sign-tamper", "sign-crit", "sign-misuse", "sign-builder"}

SignerKeys(e) ==
  IF e = "sign-roundtrip" THEN [crv : SignatureCurveNames, d : 1..MaxScalar]
  ELSE [crv : {"P-256"}, d : {1}]

SignerPublicJwk(key) == toJwkPublicKey(getPublicKey(key.crv, key.d))
SignerPrivateJwk(key) == toJwkPrivateKey(key.crv, key.d)

AlgHeader(alg) == [alg |-> alg]

SignerProtectedHeaderInputs(e, key) ==
  LET header == AlgHeader(signatureAlgorithmName(key.crv)) IN
  CASE e = "sign-roundtrip" ->
         { header,
           Spread(header, [b64 |-> JFalse, crit |-> <<"b64">>]),
           Spread(header, [b64 |-> JTrue, crit |-> <<"b64">>]) }
    [] e = "sign-tamper" -> { header }
    [] e = "sign-crit" ->
         { Spread(header, [crit |-> <<"ext">>, ext |-> "v"]),
           Spread(header, [crit |-> <<"ext">>]),
           Spread(header, [crit |-> <<"b64">>]),
           Spread(header, [crit |-> <<"b64", "ext">>, b64 |-> JTrue]),
           Spread(header, [crit |-> <<"b64">>, b64 |-> "S"]),
           Spread(header, [crit |-> <<"unk">>]),
           Spread(header, [crit |-> <<>>]),
           Spread(header, [b64 |-> JFalse]) }
    [] e = "sign-misuse" ->
         { header, AlgHeader("ES384"), AlgHeader("HS256"), AlgHeader(""),
           [kid |-> "key-1"], EmptyObject, NotPlainObject }
    [] e = "sign-builder" -> { header }

SignerUnprotectedHeaderInputs(e) ==
  CASE e = "sign-crit" -> { [ext |-> "v"], [b64 |-> JFalse], [crit |-> <<"ext">>] }
    [] e = "sign-misuse" -> { [kid |-> "key-1"], [alg |-> "ES256"], NotPlainObject }
    [] e = "sign-builder" -> { [kid |-> "key-1"], [kid |-> "key-2"] }
    [] OTHER -> {}

PayloadInputs(e) ==
  CASE e = "sign-roundtrip" -> { Some(<<>>), Some(<<80, 81>>) }
    [] e = "sign-misuse" -> { Some(<<80>>), Undefined, Some(NotUint8Array) }
    [] e = "sign-crit" -> { Some(<<>>), Some(<<80, 81>>) }
    [] OTHER -> { Some(<<80, 81>>) }

SignKeyInputs(e, key) ==
  IF e = "sign-misuse"
    THEN { Some(SignerPrivateJwk(key)) } \cup MalformedJwks(SignerPrivateJwk(key), "X25519", "d")
  ELSE { Some(SignerPrivateJwk(key)) }

NoVerifyOptions == [crit |-> EmptyObject, algorithms |-> Undefined]

SignOptionsInputs(e) ==
  IF e = "sign-crit"
    THEN { NoVerifyOptions,
           [NoVerifyOptions EXCEPT !.crit = [ext |-> TRUE]],
           [NoVerifyOptions EXCEPT !.crit = [ext |-> FALSE]],
           [NoVerifyOptions EXCEPT !.crit = [b64 |-> FALSE]] }
  ELSE { NoVerifyOptions }

VerifyOptionsInputs(e) ==
  CASE e = "sign-crit" ->
         { NoVerifyOptions,
           [NoVerifyOptions EXCEPT !.crit = [ext |-> TRUE]],
           [NoVerifyOptions EXCEPT !.crit = [ext |-> FALSE]],
           [NoVerifyOptions EXCEPT !.crit = [b64 |-> FALSE]] }
    [] e = "sign-tamper" ->
         { NoVerifyOptions,
           [NoVerifyOptions EXCEPT !.algorithms = Some(<<"ES256">>)],
           [NoVerifyOptions EXCEPT !.algorithms = Some(<<"ES384", "EdDSA">>)] }
    [] OTHER -> { NoVerifyOptions }

VerifyKeyInputs(e, key) ==
  CASE e = "sign-tamper" ->
         { Some(SignerPublicJwk(key)),
           Some(toJwkPublicKey(getPublicKey(key.crv, OtherScalar(key.d)))),
           Some(toJwkPublicKey(getPublicKey("P-384", key.d))) }
    [] e = "sign-misuse" ->
         { Some(SignerPublicJwk(key)) } \cup MalformedJwks(SignerPublicJwk(key), "X25519", "y")
    [] OTHER -> { Some(SignerPublicJwk(key)) }

NewSigner == [protectedHeader |-> Undefined, unprotectedHeader |-> Undefined]

\* callers set the headers before they call sign, each once; callers of
\* "sign-builder" repeat a setter before sign and after it
SignerMaySet(field) ==
  \/ env = "sign-builder" /\ RepeatsOnly(field, signerSetterCalls)
  \/ (signCall.pc = "idle" /\ ~IsDefined(signer[field]))

\* a setter of the signer, which can only be called once
SignerSetOnce(field, value) ==
  /\ SignerMaySet(field)
  /\ Len(signerSetterCalls[field]) < MaxSetterCalls
  /\ IF IsDefined(signer[field])
       THEN /\ signerThrown' = Some(Error("JwsInvalid", "can only be called once"))
            /\ UNCHANGED signer
       ELSE /\ signer' = [signer EXCEPT ![field] = value]
            /\ signerThrown' = Undefined
  /\ signerSetterCalls' = [signerSetterCalls EXCEPT ![field] =
                             Append(@, SetterCall(value, IsDefined(signer[field])))]
  /\ UNCHANGED << env, jweVars, signerKey, signCall, sigLog, jwsWire, verifyCall >>

\* protectedHeader(protectedHeader)
SetSignerProtectedHeader ==
  \E header \in ArgumentsOf(SignerProtectedHeaderInputs(env, signerKey), env) :
    SignerSetOnce("protectedHeader", header)

\* unprotectedHeader(unprotectedHeader)
SetSignerUnprotectedHeader ==
  \E header \in ArgumentsOf(SignerUnprotectedHeaderInputs(env), env) :
    SignerSetOnce("unprotectedHeader", header)


\* a call of sign: its form, its arguments, its outcome and the outcomes of
\* the earlier calls of sign on the same instance
NoSignCall ==
  [ pc |-> "idle", form |-> "", called |-> EmptyObject, cause |-> Undefined,
    result |-> Undefined, earlier |-> <<>> ]

\* the argument checks sign makes before its try block: the error thrown, if any
SignShapeError(payload, jwkPrivateKey) ==
  IF ~IsDefined(payload) THEN Some(Error("JwsInvalid", "payload is missing"))
  ELSE IF ValueOf(payload) = NotUint8Array
    THEN Some(Error("JwsInvalid", "payload must be a Uint8Array"))
  ELSE IF ~IsDefined(jwkPrivateKey) THEN Some(Error("JwsInvalid", "jwkPrivateKey is missing"))
  ELSE IF ~ValueOf(jwkPrivateKey).plain
    THEN Some(Error("JwsInvalid", "jwkPrivateKey must be a plain object"))
  ELSE IF ~IsDefined(ValueOf(jwkPrivateKey).crv)
    THEN Some(Error("JwsInvalid", "jwkPrivateKey.crv is missing"))
  ELSE Undefined

\* the try block of sign: the flattened JWS and the provider's record of the
\* signature, or what was thrown
SignTry(fields, payload, jwkPrivateKey, options, log) ==
  LET prot == ObjectOf(fields.protectedHeader)
      signatureCurve(l) ==
        Const(l, "signatureCurve", createSignatureCurve(ValueOf(jwkPrivateKey.crv)))
      privateKey(l) == Const(l, "privateKey", toRawPrivateKey(l.signatureCurve, jwkPrivateKey))
      joseHeader(l) ==
        Const(l, "joseHeader",
              mergeJwsHeaders(fields.protectedHeader, fields.unprotectedHeader))
      criticalParamNames(l) ==
        Const(l, "criticalParamNames",
              validateCrit("JweInvalid", [b64 |-> TRUE], options.crit,
                           fields.protectedHeader, l.joseHeader))
      b64(l) == Const(l, "b64", parseB64(Get(prot, "b64"), l.criticalParamNames))
      alg(l) ==
        Const(l, "alg", validateJwsAlg(Get(prot, "alg"),
                                       signatureAlgorithmName(l.signatureCurve)))
      target(l) ==
        Const(l, "target", Ok(encodeSignTarget(fields.protectedHeader, payload, l.b64)))
      signature(l) == Const(l, "signature", Ok(SignatureOutput(log)))
      signed(l) ==
        Ok([ jws |-> [ plain |-> TRUE,
                       signature |-> Some(encodeBase64Url(l.signature)),
                       protected |-> Some(l.target.protectedHeaderB64U),
                       payload |-> Some(StringPayload(l.target.payloadB64U)),
                       header |-> fields.unprotectedHeader ],
             entry |-> SigEntry(l.signatureCurve, l.privateKey, l.target.signTarget,
                                l.signature) ])
  IN
  Bind(Bind(Bind(Bind(Bind(Bind(Bind(Bind(Bind(Ok(EmptyObject),
    signatureCurve), privateKey), joseHeader), criticalParamNames), b64), alg), target),
    signature), signed)

\* a catch block of sign that lets the error through
SignRethrow(error) == error

\* the catch block of sign: whatever was thrown becomes one error
SignCatch(error) == Error("JwsInvalid", "Failed to sign payload")

\* FlattenedSigner.sign as a function of the signer's fields and the arguments
FlattenedSign(fields, payload, jwkPrivateKey, options, log) ==
  LET try(tried) ==
        IF ~tried.ok
          THEN [cause |-> Some(tried.err), result |-> Throw(SignCatch(tried.err)), log |-> log]
        ELSE [cause |-> Undefined, result |-> Ok(tried.v.jws), log |-> log \cup {tried.v.entry}]
      check(shape) ==
        IF IsDefined(shape)
          THEN [cause |-> Undefined, result |-> Throw(ValueOf(shape)), log |-> log]
        ELSE try(SignTry(fields, ValueOf(payload), ValueOf(jwkPrivateKey), options, log))
  IN check(SignShapeError(payload, jwkPrivateKey))

\* the end of a call of sign, flattened or compact
SignReturn(form, payload, jwkPrivateKey, options, outcome, log) ==
  /\ signCall' = [ pc |-> IF outcome.result.ok THEN "resolved" ELSE "rejected",
                   form |-> form,
                   called |-> [ payload |-> payload, jwkPrivateKey |-> jwkPrivateKey,
                                options |-> options, fields |-> signer ],
                   cause |-> outcome.cause,
                   result |-> outcome.result,
                   earlier |-> Settled(signCall) ]
  /\ sigLog' = log
  /\ UNCHANGED << env, jweVars, signerKey, signerSetterCalls, signer, signerThrown, jwsWire, verifyCall >>

\* callers call sign once on an instance; callers of "sign-builder" call it
\* again before they send a JWS
CallerMaySign ==
  IF signCall.pc = "idle" THEN TRUE
  ELSE env = "sign-builder" /\ ~IsDefined(jwsWire) /\ Len(signCall.earlier) < MaxReuse

\* FlattenedSigner.sign(payload, jwkPrivateKey, options)
Sign ==
  /\ CallerMaySign
  /\ \E payload \in PayloadInputs(env), jwkPrivateKey \in SignKeyInputs(env, signerKey),
        options \in SignOptionsInputs(env) :
       LET return(outcome) ==
             SignReturn("flattened", payload, jwkPrivateKey, options, outcome, outcome.log)
       IN return(FlattenedSign(signer, payload, jwkPrivateKey, options, sigLog))

\* a compact signer that leaves the payload out of the string it returns
CompactSerializeDetached(jws) ==
  Ok(ValueOf(jws.protected) \o <<Dot, Dot>> \o ValueOf(jws.signature))

\* a compact signer that serializes whatever the flattened sign returned
CompactSerializeAlways(jws) ==
  Ok(ValueOf(jws.protected) \o <<Dot>> \o ValueOf(jws.payload).v \o <<Dot>>
     \o ValueOf(jws.signature))

\* CompactSigner.sign, after its call of the flattened sign has returned jws
CompactSerialize(jws) ==
  LET serialize(parsedProtected) ==
        IF ValueOf(jws.payload).v = <<>> /\ Get(parsedProtected, "b64") = Some(JFalse)
          THEN Throw(Error("JwsInvalid",
                           "use the flattened module for creating JWS with b64: false"))
        ELSE Ok(ValueOf(jws.protected) \o <<Dot>> \o ValueOf(jws.payload).v \o <<Dot>>
                \o ValueOf(jws.signature))
  IN Bind(parseBase64UrlHeader(jws.protected), serialize)

\* CompactSigner.sign(payload, jwkPrivateKey, options); the compact signer has
\* no setter for the unprotected header
CompactSign ==
  /\ CallerMaySign
  /\ ~IsDefined(signer.unprotectedHeader)
  /\ \E payload \in PayloadInputs(env), jwkPrivateKey \in SignKeyInputs(env, signerKey),
        options \in SignOptionsInputs(env) :
       LET return(flattened) ==
             SignReturn("compact", payload, jwkPrivateKey, options,
                        IF flattened.result.ok
                          THEN [cause |-> Undefined,
                                result |-> CompactSerialize(flattened.result.v)]
                        ELSE [cause |-> flattened.cause, result |-> flattened.result],
                        flattened.log)
       IN return(FlattenedSign(signer, payload, jwkPrivateKey, options, sigLog))


(***************************************************************************)
(* The JWS on its way to the verifier.                                     *)
(***************************************************************************)
Whitespace == {9, 10, 13, 32}

\* String.prototype.trim
trim(text) ==
  LET inked == {i \in 1..Len(text) : text[i] \notin Whitespace} IN
  IF inked = {} THEN <<>>
  ELSE SubSeq(text, CHOOSE i \in inked : \A j \in inked : i <= j,
                    CHOOSE i \in inked : \A j \in inked : j <= i)

\* String.prototype.split('.')
split(text) ==
  LET dots == {i \in 1..Len(text) : text[i] = Dot}
      n == Cardinality(dots) + 1
      dotAt(k) == CHOOSE i \in dots : Cardinality({j \in dots : j < i}) = k - 1
  IN [k \in 1..n |-> SubSeq(text, IF k = 1 THEN 1 ELSE dotAt(k - 1) + 1,
                                  IF k = n THEN Len(text) ELSE dotAt(k) - 1)]

DeliverJws ==
  /\ signCall.pc = "resolved"
  /\ ~IsDefined(jwsWire)
  /\ jwsWire' = Some(signCall.result.v)
  /\ UNCHANGED << env, jweVars, signerKey, signerSetterCalls, signer, signerThrown, signCall, sigLog, verifyCall >>

Untouched == signCall.pc = "resolved" /\ jwsWire = Some(signCall.result.v)

\* the holder of a flattened JWS puts the payload that was signed in the
\* payload member, as the detached form of b64: false has it travel
AttachPayload ==
  /\ env = "sign-roundtrip"
  /\ Untouched
  /\ signCall.form = "flattened"
  /\ jwsWire' = Some([ValueOf(jwsWire) EXCEPT
                        !.payload = Some(BytesPayload(ValueOf(signCall.called.payload)))])
  /\ UNCHANGED << env, jweVars, signerKey, signerSetterCalls, signer, signerThrown, signCall, sigLog, verifyCall >>

\* what an attacker puts in place of a member of the flattened JWS
JwsMemberTamperValues(jws, member) ==
  CASE member = "signature" ->
         { Undefined, Some(NonStringChars), Some(<<33>>),
           Some(encodeBase64Url(<<(decodeB64U(ValueOf(jws.signature)).v[1] + 1) % 256>>)) }
    [] member = "protected" ->
         { Undefined, Some(NonStringChars), Some(<<33>>), Some(<<>>),
           Some(encodeBase64Url(JsonNumberText)),
           Some(encodeBase64Url(JsonStringify(EmptyObject))) }
    [] member = "payload" ->
         { Undefined, Some(OtherPayload), Some(StringPayload(<<33>>)),
           Some(StringPayload(encodeBase64Url(<<90>>))), Some(BytesPayload(<<90>>)) }
    [] member = "header" ->
         { Some([kid |-> "key-1"]), Some([alg |-> "ES256"]), Some(NotPlainObject),
           Some([crit |-> <<"kid">>]) }

\* what an attacker puts in place of a parameter of the JWS protected header
JwsProtectedTamperValues(key) ==
  CASE key = "alg" -> {Some("ES384"), Some("HS256"), Some(""), Some(NonString), Undefined}
    [] key = "b64" -> {Some(JFalse), Some("S")}
    [] key = "crit" -> {Some(<<"unk">>), Some(<<"b64">>), Some(NotArray), Some(<<>>)}
    [] key = "kid" -> {Some("key-1")}

\* what an attacker puts in place of the compact JWS
CompactTamperValues(text) ==
  LET join(a, b, c) == a \o <<Dot>> \o b \o <<Dot>> \o c
      values(parts) ==
        { <<>>, <<32, 9>>, NonStringChars,
          parts[1] \o <<Dot>> \o parts[2],
          text \o <<Dot>> \o parts[3],
          join(parts[1], parts[2], <<33>>),
          join(parts[1], parts[2],
               encodeBase64Url(<<(decodeB64U(parts[3]).v[1] + 1) % 256>>)),
          join(parts[1], encodeBase64Url(<<90>>), parts[3]),
          join(ValueOf(RewriteProtected([protected |-> Some(parts[1])], "alg",
                                        Some("ES384")).protected),
               parts[2], parts[3]),
          join(<<33>>, parts[2], parts[3]),
          <<32>> \o text }
  IN values(split(text))

TamperJws(member) ==
  /\ env = "sign-tamper"
  /\ Untouched
  /\ signCall.form = "flattened"
  /\ \E value \in JwsMemberTamperValues(ValueOf(jwsWire), member) :
       /\ jwsWire' = Some([ValueOf(jwsWire) EXCEPT ![member] = value])
       /\ jwsWire' # jwsWire
  /\ UNCHANGED << env, jweVars, signerKey, signerSetterCalls, signer, signerThrown, signCall, sigLog, verifyCall >>

TamperJwsProtected(key) ==
  /\ env = "sign-tamper"
  /\ Untouched
  /\ signCall.form = "flattened"
  /\ \E value \in JwsProtectedTamperValues(key) :
       /\ jwsWire' = Some(RewriteProtected(ValueOf(jwsWire), key, value))
       /\ jwsWire' # jwsWire
  /\ UNCHANGED << env, jweVars, signerKey, signerSetterCalls, signer, signerThrown, signCall, sigLog, verifyCall >>

TamperCompact ==
  /\ env = "sign-tamper"
  /\ Untouched
  /\ signCall.form = "compact"
  /\ \E value \in CompactTamperValues(ValueOf(jwsWire)) :
       /\ jwsWire' = Some(value)
       /\ jwsWire' # jwsWire
  /\ UNCHANGED << env, jweVars, signerKey, signerSetterCalls, signer, signerThrown, signCall, sigLog, verifyCall >>


(***************************************************************************)
(* FlattenedVerifier (src/jws/flattened/FlattenedVerifier.ts) and          *)
(* CompactVerifier (src/jws/compact/CompactVerifier.ts).                   *)
(***************************************************************************)
NoVerifyCall ==
  [ pc |-> "idle", form |-> "", called |-> EmptyObject, primitive |-> Undefined,
    cause |-> Undefined, result |-> Undefined ]

\* the argument checks verify makes before its try block: the error thrown, if any
VerifyShapeError(jws, jwkPublicKey) ==
  IF ~IsDefined(jws) THEN Some(Error("JwsInvalid", "Flattened JWS is missing"))
  ELSE IF ~ValueOf(jws).plain
    THEN Some(Error("JwsInvalid", "Flattened JWS must be a plain object"))
  ELSE IF ~IsDefined(jwkPublicKey) THEN Some(Error("JwsInvalid", "jwkPublicKey is missing"))
  ELSE IF ~ValueOf(jwkPublicKey).plain
    THEN Some(Error("JwsInvalid", "jwkPublicKey must be a plain object"))
  ELSE IF ~IsDefined(ValueOf(jwkPublicKey).crv)
    THEN Some(Error("JwsInvalid", "jwkPublicKey.crv is missing"))
  ELSE Undefined

\* the try block of verify up to the call of the signature primitive: what the
\* primitive is given and what the result is built from, or what was thrown
VerifyPrepare(jws, jwkPublicKey, options) ==
  LET signatureCurve(l) ==
        Const(l, "signatureCurve", createSignatureCurve(ValueOf(jwkPublicKey.crv)))
      publicKey(l) == Const(l, "publicKey", toRawPublicKey(l.signatureCurve, jwkPublicKey))
      validated(l) == Const(l, "validated", validateFlattenedJws(jws))
      criticalParamNames(l) ==
        Const(l, "criticalParamNames",
              validateCrit("JwsInvalid", [b64 |-> TRUE], options.crit,
                           Some(l.validated.parsedProtected), l.validated.joseHeader))
      b64(l) ==
        Const(l, "b64", parseB64(Get(l.validated.parsedProtected, "b64"),
                                 l.criticalParamNames))
      alg(l) ==
        Const(l, "alg", validateJwsAlg(Get(l.validated.parsedProtected, "alg"),
                                       signatureAlgorithmName(l.signatureCurve)))
      target(l) ==
        Const(l, "target",
              encodeVerifyTarget(IF IsDefined(jws.protected) THEN ValueOf(jws.protected)
                                 ELSE <<>>,
                                 ValueOf(jws.payload), l.b64))
      prepared(l) ==
        Ok([ publicKey |-> l.publicKey, verifyTarget |-> l.target.verifyTarget,
             signature |-> l.validated.signature, payload |-> l.target.payload,
             parsedProtected |-> l.validated.parsedProtected, alg |-> l.alg,
             criticalParamNames |-> l.criticalParamNames,
             joseHeader |-> l.validated.joseHeader ])
  IN
  Bind(Bind(Bind(Bind(Bind(Bind(Bind(Bind(Ok(EmptyObject),
    signatureCurve), publicKey), validated), criticalParamNames), b64), alg), target),
    prepared)

\* the try block of verify: what the signature primitive returned, if it was
\* called, and what the block returned or threw
VerifyTry(jws, jwkPublicKey, options, log) ==
  LET verified(p, v) ==
        [ primitive |-> Some(v),
          result |->
            IF ~v THEN Throw(Error("JwsSignatureVerificationFailed",
                                   "JWS signature verification failed"))
            ELSE Ok([ payload |-> p.payload,
                      protectedHeader |-> IF IsDefined(jws.protected)
                                            THEN Some(p.parsedProtected) ELSE Undefined,
                      unprotectedHeader |-> jws.header ]) ]
      verify(prepared) ==
        IF ~prepared.ok THEN [primitive |-> Undefined, result |-> prepared]
        ELSE verified(prepared.v,
                      SignatureVerify(log, prepared.v.publicKey, prepared.v.verifyTarget,
                                      prepared.v.signature))
  IN verify(VerifyPrepare(jws, jwkPublicKey, options))

\* a catch block that turns every error into the one of a malformed JWS
VerifyCatchAll(error) == Error("JwsInvalid", "Failed to verify JWS signature")

\* a catch block that lets every error through
VerifyRethrow(error) == error

\* the catch block of verify
VerifyCatch(error) ==
  IF error.type = "JwsSignatureVerificationFailed" THEN error
  ELSE Error("JwsInvalid", "Failed to verify JWS signature")

\* FlattenedVerifier.verify as a function of its arguments
FlattenedVerify(jws, jwkPublicKey, options, log) ==
  LET catch(tried) ==
        IF ~tried.result.ok
          THEN [primitive |-> tried.primitive, cause |-> Some(tried.result.err),
                result |-> Throw(VerifyCatch(tried.result.err))]
        ELSE [primitive |-> tried.primitive, cause |-> Undefined, result |-> tried.result]
      check(shape) ==
        IF IsDefined(shape)
          THEN [primitive |-> Undefined, cause |-> Undefined, result |-> Throw(ValueOf(shape))]
        ELSE catch(VerifyTry(ValueOf(jws), ValueOf(jwkPublicKey), options, log))
  IN check(VerifyShapeError(jws, jwkPublicKey))

\* the end of a call of verify, flattened or compact
VerifyReturn(form, jws, jwkPublicKey, options, outcome) ==
  /\ verifyCall' = [ pc |-> IF outcome.result.ok THEN "resolved" ELSE "rejected",
                     form |-> form,
                     called |-> [ jws |-> jws, jwkPublicKey |-> jwkPublicKey,
                                  options |-> options ],
                     primitive |-> outcome.primitive,
                     cause |-> outcome.cause,
                     result |-> outcome.result ]
  /\ UNCHANGED << env, jweVars, signerKey, signerSetterCalls, signer, signerThrown, signCall, sigLog, jwsWire >>

\* verify is called with the JWS delivered; callers of "sign-misuse" also call
\* it with no JWS at all
JwsDeliveredOrMissing(form) ==
  \/ IsDefined(jwsWire) /\ signCall.form = form
  \/ env = "sign-misuse" /\ signCall.pc = "idle"

\* FlattenedVerifier.verify(jws, jwkPublicKey, options)
Verify ==
  /\ verifyCall.pc = "idle"
  /\ JwsDeliveredOrMissing("flattened")
  /\ \E jwkPublicKey \in VerifyKeyInputs(env, signerKey),
        options \in VerifyOptionsInputs(env) :
       VerifyReturn("flattened", jwsWire, jwkPublicKey, options,
                    FlattenedVerify(jwsWire, jwkPublicKey, options, sigLog))

\* CompactVerifier.verify as a function of its arguments
CompactVerifyOutcome(jws, jwkPublicKey, options, log) ==
  LET rejected(message) ==
        [ primitive |-> Undefined, cause |-> Undefined,
          result |-> Throw(Error("JwsInvalid", message)) ]
      return(flattened) ==
        IF ~flattened.result.ok THEN flattened
        ELSE [flattened EXCEPT !.result = Ok([ payload |-> flattened.result.v.payload,
                                               protectedHeader |->
                                                 flattened.result.v.protectedHeader ])]
      verify(parts) ==
        IF Len(parts) # 3 THEN rejected("Compact JWS must have 3 parts")
        ELSE return(FlattenedVerify(Some([ plain |-> TRUE,
                                           payload |-> Some(StringPayload(parts[2])),
                                           protected |-> Some(parts[1]),
                                           signature |-> Some(parts[3]),
                                           header |-> Undefined ]),
                                    jwkPublicKey, options, log))
  IN
  IF ~IsDefined(jws) THEN rejected("Compact JWS is missing")
  ELSE IF ValueOf(jws) = NonStringChars THEN rejected("Compact JWS must be a string")
  ELSE IF trim(ValueOf(jws)) = <<>> THEN rejected("Compact JWS cannot be empty")
  ELSE verify(split(ValueOf(jws)))

\* CompactVerifier.verify(jws, jwkPublicKey, options)
CompactVerify ==
  /\ verifyCall.pc = "idle"
  /\ JwsDeliveredOrMissing("compact")
  /\ \E jwkPublicKey \in VerifyKeyInputs(env, signerKey),
        options \in VerifyOptionsInputs(env) :
       VerifyReturn("compact", jwsWire, jwkPublicKey, options,
                    CompactVerifyOutcome(jwsWire, jwkPublicKey, options, sigLog))

\* the holder of a compact JWS splits it on '.' into the members of a
\* flattened JWS
SplitCompact(text) ==
  LET parts == split(text) IN
  [ plain |-> TRUE, payload |-> Some(StringPayload(parts[2])),
    protected |-> Some(parts[1]), signature |-> Some(parts[3]), header |-> Undefined ]

\* the holder of a flattened JWS joins its members as protected.payload.signature
JoinFlattened(jws) ==
  ValueOf(jws.protected) \o <<Dot>> \o ValueOf(jws.payload).v \o <<Dot>>
  \o ValueOf(jws.signature)

\* the compact JWS as sign returned it is split and handed to FlattenedVerifier.verify
VerifySplit ==
  /\ verifyCall.pc = "idle"
  /\ env = "sign-roundtrip"
  /\ Untouched
  /\ signCall.form = "compact"
  /\ \E jwkPublicKey \in VerifyKeyInputs(env, signerKey),
        options \in VerifyOptionsInputs(env) :
       LET jws == Some(SplitCompact(ValueOf(jwsWire))) IN
       VerifyReturn("flattened", jws, jwkPublicKey, options,
                    FlattenedVerify(jws, jwkPublicKey, options, sigLog))

\* the flattened JWS as sign returned it is joined and handed to CompactVerifier.verify
VerifyJoined ==
  /\ verifyCall.pc = "idle"
  /\ env = "sign-roundtrip"
  /\ Untouched
  /\ signCall.form = "flattened"
  /\ ~IsDefined(ValueOf(jwsWire).header)
  /\ \E jwkPublicKey \in VerifyKeyInputs(env, signerKey),
        options \in VerifyOptionsInputs(env) :
       LET jws == Some(JoinFlattened(ValueOf(jwsWire))) IN
       VerifyReturn("compact", jws, jwkPublicKey, options,
                    CompactVerifyOutcome(jws, jwkPublicKey, options, sigLog))

(***************************************************************************)
(* The JWS specification: one signer, one JWS, one call of verify.         *)
(***************************************************************************)
InitJws ==
  /\ env \in JwsEnvs
  /\ signerKey \in SignerKeys(env)
  /\ signer = NewSigner
  /\ signerThrown = Undefined
  /\ signCall = NoSignCall
  /\ sigLog = {}
  /\ jwsWire = Undefined
  /\ verifyCall = NoVerifyCall
  /\ signerSetterCalls = NoSetterCalls(NewSigner)
  /\ recipient = [crv |-> "P-256", d |-> 1]
  /\ encrypter = NewEncrypter
  /\ thrown = Undefined
  /\ encryptCall = NoCall
  /\ aesLog = {}
  /\ wire = Undefined
  /\ decryptCall = NoDecryptCall
  /\ setterCalls = NoSetterCalls(NewEncrypter)

NextJws ==
  \/ SetSignerProtectedHeader
  \/ SetSignerUnprotectedHeader
  \/ Sign
  \/ CompactSign
  \/ DeliverJws
  \/ AttachPayload
  \/ \E member \in {"signature", "protected", "payload", "header"} : TamperJws(member)
  \/ \E key \in {"alg", "b64", "crit", "kid"} : TamperJwsProtected(key)
  \/ TamperCompact
  \/ Verify
  \/ CompactVerify
  \/ VerifySplit
  \/ VerifyJoined


(***************************************************************************)
(* The JWE specification.                                                  *)
(***************************************************************************)
Init ==
  /\ env \in JweEnvs
  /\ recipient \in Recipients(env)
  /\ encrypter = NewEncrypter
  /\ thrown = Undefined
  /\ encryptCall = NoCall
  /\ aesLog = {}
  /\ wire = Undefined
  /\ decryptCall = NoDecryptCall
  /\ setterCalls = NoSetterCalls(NewEncrypter)
  /\ signerKey = [crv |-> "P-256", d |-> 1]
  /\ signer = NewSigner
  /\ signerThrown = Undefined
  /\ signCall = NoSignCall
  /\ sigLog = {}
  /\ jwsWire = Undefined
  /\ verifyCall = NoVerifyCall
  /\ signerSetterCalls = NoSetterCalls(NewSigner)

Next ==
  \/ SetKeyManagementParameters
  \/ SetProtectedHeader
  \/ SetSharedUnprotectedHeader
  \/ SetUnprotectedHeader
  \/ SetAdditionalAuthenticatedData
  \/ Encrypt
  \/ EncryptResume
  \/ EncryptResumePending
  \/ Deliver
  \/ \E member \in {"iv", "tag", "ciphertext", "aad", "encrypted_key", "protected",
                    "header", "unprotected"} : TamperMember(member)
  \/ \E key \in {KeyOrder[i] : i \in 1..Len(KeyOrder)} : TamperProtected(key)
  \/ Decrypt
  \/ DeriveWithMitigation
  \/ MitigationWake
  \/ DecryptResume
  \/ AesDecryptReturn

vars == << env, jweVars, jwsVars >>

Spec == Init /\ [][Next]_vars

SpecJws == InitJws /\ [][NextJws]_vars

(***************************************************************************)
(* Properties of FlattenedEncrypter and FlattenedDecrypter.                *)
(***************************************************************************)
\* C1: decrypting, with the recipient's private key and no options, the
\* flattened JWE that encrypt produced for the recipient's public key and the
\* protected header {alg: ECDH-ES, enc} never fails, and returns the plaintext
\* encrypt was given and a protectedHeader with an epk for the recipient's
\* curve and the base64url text of every apu and apv that was set.
JweRoundTrip ==
  ( /\ encryptCall.pc = "resolved"
    /\ encryptCall.called.yourJwkPublicKey = Some(RecipientPublicJwk(recipient))
    /\ \E i \in 1..Len(JweEncs) :
         encryptCall.called.fields.protectedHeader = Some(EcdhHeader(JweEncs[i]))
    /\ Has(decryptCall.called, "jwe")
    /\ decryptCall.called.jwe = Some(encryptCall.result.v)
    /\ decryptCall.called.myJwkPrivateKey = Some(RecipientPrivateJwk(recipient))
    /\ decryptCall.called.options = NoOptions )
  => /\ decryptCall.pc \notin {"rejected", "sleeping"}
     /\ decryptCall.pc = "resolved" =>
          LET returned == decryptCall.result.v
              header == returned.protectedHeader
              parameters == encryptCall.called.fields.keyManagementParameters
              carries(name) ==
                (IsDefined(parameters) /\ IsDefined(ValueOf(parameters)[name]))
                  => /\ Has(header, name)
                     /\ header[name] = encodeBase64Url(ValueOf(ValueOf(parameters)[name]))
          IN /\ Some(returned.plaintext) = encryptCall.called.plaintext
             /\ Has(header, "epk")
             /\ validateJweEpk(Some(header.epk)).ok
             /\ header.epk.crv = Some(recipient.crv)
             /\ toRawPublicKey(recipient.crv, header.epk).ok
             /\ carries("apu")
             /\ carries("apv")

\* a round trip on X25519 with a 32-byte apu has returned the plaintext
JweRoundTripWitness ==
  /\ encryptCall.pc = "resolved"
  /\ decryptCall.pc = "resolved"
  /\ recipient.crv = "X25519"
  /\ encryptCall.called.fields.keyManagementParameters
       = Some(PartyInfo(Some(PartyInfoList[3]), Undefined))
  /\ encryptCall.called.fields.protectedHeader = Some(EcdhHeader("A256CBC-HS512"))
  /\ decryptCall.called.jwe = Some(encryptCall.result.v)
  /\ decryptCall.result.v.plaintext = <<80, 81>>
  /\ decryptCall.result.v.protectedHeader.apu = encodeBase64Url(PartyInfoList[3])

\* C2: once the shape checks of decrypt have passed, every rejection of
\* decrypt carries the one error JweInvalid 'Failed to decrypt JWE'.
UniformDecryptError ==
  ( /\ decryptCall.pc = "rejected"
    /\ Has(decryptCall.called, "jwe")
    /\ ~IsDefined(DecryptShapeError(decryptCall.called.jwe,
                                    decryptCall.called.myJwkPrivateKey)) )
  => decryptCall.result = Throw(Error("JweInvalid", "Failed to decrypt JWE"))

\* decrypt has rejected a JWE whose alg the caller's allow-list leaves out:
\* the error raised inside was another one
UniformDecryptErrorWitness ==
  /\ decryptCall.pc = "rejected"
  /\ Has(decryptCall.called, "jwe")
  /\ decryptCall.cause = Some(Error("JweInvalid", "alg is not allowed"))
  /\ decryptCall.result = Throw(Error("JweInvalid", "Failed to decrypt JWE"))

\* C3, as stated: every rejection of decrypt after its shape checks comes
\* after the timing-mitigation wrapper has run.
WrapperRunsBeforeEveryRejection ==
  ( /\ decryptCall.pc = "rejected"
    /\ Has(decryptCall.called, "jwe")
    /\ ~IsDefined(DecryptShapeError(decryptCall.called.jwe,
                                    decryptCall.called.myJwkPrivateKey)) )
  => \E i \in 1..Len(decryptCall.steps) : decryptCall.steps[i] = "wrapper"

\* C3, amended: a rejection of decrypt after its shape checks comes after the
\* wrapper has run exactly when header validation (field decoding, header
\* merge, crit, alg, enc and the allow-lists) succeeded, that is for failures
\* of key derivation and of AEAD authentication; then the wrapper ran right
\* after validation and aes.decrypt was the last step.  A failure of header
\* validation rejects before the wrapper is called.
WrapperRunsAfterValidation ==
  ( /\ decryptCall.pc = "rejected"
    /\ Has(decryptCall.called, "jwe")
    /\ ~IsDefined(DecryptShapeError(decryptCall.called.jwe,
                                    decryptCall.called.myJwkPrivateKey)) )
  => LET steps == decryptCall.steps IN
     IF DecryptValidate(ValueOf(decryptCall.called.jwe),
                        ValueOf(decryptCall.called.myJwkPrivateKey),
                        decryptCall.called.options).ok
       THEN /\ Len(steps) >= 3
            /\ SubSeq(steps, 1, 2) = <<"validate", "wrapper">>
            /\ steps[Len(steps)] = "aes.decrypt"
     ELSE steps = <<"validate">>

\* decrypt has rejected after a failed key derivation, the wrapper having run
WrapperRunsAfterValidationWitness ==
  /\ decryptCall.pc = "rejected"
  /\ Has(decryptCall.called, "jwe")
  /\ IsDefined(decryptCall.derivation)
  /\ ~ValueOf(decryptCall.derivation).ok
  /\ decryptCall.steps = <<"validate", "wrapper", "sleep", "randomBytes", "aes.decrypt">>

\* C4: when header validation succeeds and key derivation fails, decrypt
\* sleeps for 200 to 499 ms before anything else, has no CEK while it sleeps,
\* draws the mitigated CEK after the sleep and calls aes.decrypt with it, never
\* resolves, and rejects with the error of an authentication failure.
TimingMitigation ==
  ( /\ Has(decryptCall.called, "jwe")
    /\ IsDefined(decryptCall.derivation)
    /\ ~ValueOf(decryptCall.derivation).ok )
  => LET order == <<"validate", "wrapper", "sleep", "randomBytes", "aes.decrypt">>
         steps == decryptCall.steps
     IN /\ decryptCall.delay \in 200..499
        /\ Len(steps) \in 3..Len(order)
        /\ steps = SubSeq(order, 1, Len(steps))
        /\ decryptCall.pc = "sleeping" <=> Len(steps) = 3
        /\ decryptCall.pc = "sleeping" => decryptCall.locals.cek = <<>>
        /\ decryptCall.pc = "derived" <=> Len(steps) = 4
        /\ decryptCall.pc \in {"awaitAes", "rejected"} <=> Len(steps) = 5
        /\ decryptCall.pc # "sleeping" =>
             \E r \in 1..MaxRandom :
               Ok(decryptCall.locals.cek) = MitigatedCek(decryptCall.locals.enc, r)
        /\ decryptCall.pc = "rejected" =>
             /\ decryptCall.cause = Some(Error("Error", "aes decrypt failed"))
             /\ decryptCall.result = Throw(Error("JweInvalid", "Failed to decrypt JWE"))

\* decrypt has rejected a JWE whose epk was replaced by one of another curve
TimingMitigationWitness ==
  /\ decryptCall.pc = "rejected"
  /\ Has(decryptCall.called, "jwe")
  /\ IsDefined(decryptCall.derivation)
  /\ ~ValueOf(decryptCall.derivation).ok
  /\ decryptCall.delay >= 400
  /\ Has(decryptCall.locals.parsedProtected, "epk")
  /\ validateJweEpk(Some(decryptCall.locals.parsedProtected.epk)).ok
  /\ decryptCall.locals.parsedProtected.epk.crv # Some(recipient.crv)

JwsRoundTripAsReturned ==
  LET alg == AlgHeader(signatureAlgorithmName(signerKey.crv)) IN
  ( /\ signCall.pc = "resolved"
    /\ signCall.form = "flattened"
    /\ signCall.called.jwkPrivateKey = Some(SignerPrivateJwk(signerKey))
    /\ signCall.called.fields.protectedHeader
         \in { Some(alg), Some(Spread(alg, [b64 |-> JFalse, crit |-> <<"b64">>])),
               Some(Spread(alg, [b64 |-> JTrue, crit |-> <<"b64">>])) }
    /\ verifyCall.pc # "idle"
    /\ verifyCall.form = "flattened"
    /\ verifyCall.called.jwkPublicKey = Some(SignerPublicJwk(signerKey))
    /\ verifyCall.called.options = NoVerifyOptions
    /\ verifyCall.called.jws = Some(signCall.result.v) )
  => /\ verifyCall.pc = "resolved"
     /\ Some(verifyCall.result.v.payload) = signCall.called.payload

\* C6, amended: the round trip holds for the JWS as sign returned it when the
\* payload is base64url-encoded (b64 absent or true), and for b64: false once
\* the payload that was signed is put in the payload member of the returned
\* JWS, which sign leaves as the empty string; the b64: false JWS handed to
\* verify as sign returned it is rejected as an invalid JWS.
JwsRoundTrip ==
  LET alg == AlgHeader(signatureAlgorithmName(signerKey.crv))
      unencoded == Some(Spread(alg, [b64 |-> JFalse, crit |-> <<"b64">>]))
  IN
  ( /\ signCall.pc = "resolved"
    /\ signCall.form = "flattened"
    /\ signCall.called.jwkPrivateKey = Some(SignerPrivateJwk(signerKey))
    /\ signCall.called.fields.protectedHeader
         \in { Some(alg), unencoded, Some(Spread(alg, [b64 |-> JTrue, crit |-> <<"b64">>])) }
    /\ verifyCall.pc # "idle"
    /\ verifyCall.form = "flattened"
    /\ verifyCall.called.jwkPublicKey = Some(SignerPublicJwk(signerKey))
    /\ verifyCall.called.options = NoVerifyOptions )
  => LET returned == signCall.result.v
         detached == signCall.called.fields.protectedHeader = unencoded
         spliced == [returned EXCEPT
                       !.payload = Some(BytesPayload(ValueOf(signCall.called.payload)))]
     IN /\ verifyCall.called.jws = Some(IF detached THEN spliced ELSE returned)
             => /\ verifyCall.pc = "resolved"
                /\ Some(verifyCall.result.v.payload) = signCall.called.payload
        /\ (detached /\ verifyCall.called.jws = Some(returned))
             => /\ returned.payload = Some(StringPayload(<<>>))
                /\ verifyCall.result
                     = Throw(Error("JwsInvalid", "Failed to verify JWS signature"))

\* an Ed25519 JWS with b64: false has verified with the payload put back in
JwsRoundTripWitness ==
  /\ signCall.pc = "resolved"
  /\ verifyCall.pc = "resolved"
  /\ signerKey.crv = "Ed25519"
  /\ signCall.called.fields.protectedHeader
       = Some([alg |-> "EdDSA", b64 |-> JFalse, crit |-> <<"b64">>])
  /\ verifyCall.called.jws # Some(signCall.result.v)
  /\ verifyCall.called.options = NoVerifyOptions
  /\ verifyCall.result.v.payload = <<80, 81>>

\* C7: when verify, flattened or compact, has called the signature primitive
\* and it returned false, verify rejects with the error
\* JwsSignatureVerificationFailed and not with JwsInvalid.
SignatureFailureIsDistinct ==
  verifyCall.primitive = Some(FALSE)
  => /\ verifyCall.pc = "rejected"
     /\ verifyCall.result.err.type = "JwsSignatureVerificationFailed"
     /\ verifyCall.result.err.type # "JwsInvalid"
     /\ verifyCall.result.err.message = "JWS signature verification failed"

\* a compact JWS, as signed, was verified with another public key of the curve
SignatureFailureIsDistinctWitness ==
  /\ verifyCall.form = "compact"
  /\ verifyCall.primitive = Some(FALSE)
  /\ verifyCall.called.jws = Some(signCall.result.v)
  /\ verifyCall.called.jwkPublicKey
       = Some(toJwkPublicKey(getPublicKey(signerKey.crv, OtherScalar(signerKey.d))))
  /\ verifyCall.pc = "rejected"

\* C8, as stated: among the calls of the flattened verify that pass the
\* argument checks, the error of a shape failure, of an algorithm rejection
\* and of a bad signature is never an error verify raises for a failure of
\* one of the other two kinds.
VerifyErrorsPairwiseDistinct ==
  LET raised(kind) ==
        CASE kind = "shape" ->
               { VerifyCatch(Error("JwsInvalid", "JWS Protected Header is missing")),
                 VerifyCatch(Error("Error", "Payload must be a string when b64=true")) }
          [] kind = "algorithm" ->
               { VerifyCatch(validateJwsAlg(Some("HS256"), "ES256").err),
                 VerifyCatch(validateJwsAlg(Some("ES384"), "ES256").err) }
          [] kind = "signature" ->
               { Error("JwsSignatureVerificationFailed", "JWS signature verification failed") }
      distinct(kind) ==
        \A other \in {"shape", "algorithm", "signature"} \ {kind} :
          verifyCall.result.err \notin raised(other)
      jws == ValueOf(verifyCall.called.jws)
  IN
  ( /\ verifyCall.pc = "rejected"
    /\ verifyCall.form = "flattened"
    /\ ~IsDefined(VerifyShapeError(verifyCall.called.jws, verifyCall.called.jwkPublicKey)) )
  => /\ verifyCall.primitive = Some(FALSE) => distinct("signature")
     /\ ~validateFlattenedJws(jws).ok => distinct("shape")
     /\ ( /\ IsDefined(verifyCall.cause)
          /\ ValueOf(verifyCall.cause).message
               \in {"alg is not supported", "alg does not match JWK parameters"} )
          => distinct("algorithm")

\* C8, amended: among the calls of the flattened verify that pass the argument
\* checks, only the bad signature is told apart: verify rejects with
\* JwsSignatureVerificationFailed exactly when the signature primitive
\* returned false, and every other failure of the try block, a shape failure
\* and an algorithm rejection alike, rejects with the one error JwsInvalid
\* 'Failed to verify JWS signature'.
VerifyTellsOnlyBadSignatureApart ==
  ( /\ verifyCall.pc = "rejected"
    /\ verifyCall.form = "flattened"
    /\ ~IsDefined(VerifyShapeError(verifyCall.called.jws, verifyCall.called.jwkPublicKey)) )
  => IF verifyCall.primitive = Some(FALSE)
       THEN verifyCall.result.err.type = "JwsSignatureVerificationFailed"
     ELSE /\ verifyCall.primitive = Undefined
          /\ IsDefined(verifyCall.cause)
          /\ verifyCall.result = Throw(Error("JwsInvalid", "Failed to verify JWS signature"))

\* verify has rejected a JWS whose alg does not match the key with the error
\* it raises for a JWS without protected header
VerifyTellsOnlyBadSignatureApartWitness ==
  /\ verifyCall.pc = "rejected"
  /\ verifyCall.form = "flattened"
  /\ verifyCall.cause = Some(Error("JwsInvalid", "alg does not match JWK parameters"))
  /\ validateFlattenedJws(ValueOf(verifyCall.called.jws)).ok
  /\ verifyCall.result.err = VerifyCatch(Error("JwsInvalid", "JWS Protected Header is missing"))

\* C9: when the caller of verify passes options.algorithms, verify resolves
\* only if the alg of the JWS is in that list.
VerifyAlgorithmsIsAllowList ==
  ( /\ verifyCall.pc = "resolved"
    /\ IsDefined(verifyCall.called.options.algorithms) )
  => LET algorithms == ValueOf(verifyCall.called.options.algorithms) IN
     \E i \in 1..Len(algorithms) :
       algorithms[i] = ValueOf(verifyCall.result.v.protectedHeader).alg

(***************************************************************************)
(* The four operations side by side: a run of the encrypter and decrypter  *)
(* or a run of the signer and verifier.                                    *)
(***************************************************************************)
InitAll == Init \/ InitJws

NextAll ==
  \/ (env \in JweEnvs /\ Next)
  \/ (env \in JwsEnvs /\ NextJws)

SpecAll == InitAll /\ [][NextAll]_vars


(***************************************************************************)
(* The key agreement on its own: ecdhesDeriveEncryptionKey is called for a *)
(* recipient's public key and ecdhesDeriveDecryptionKey with the           *)
(* recipient's private key on the parameters it returned                   *)
(* (src/jwe/key-management/ecdhes/__tests__/ecdhesDeriveDecryptionKey.spec.ts). *)
(***************************************************************************)
\* the party info the callers pass: none, empty, one byte, 32 bytes, 33 bytes
ProvidedParametersInputs ==
  LET values == {Undefined} \cup {Some(PartyInfoList[i]) : i \in 1..Len(PartyInfoList)} IN
  {Undefined} \cup {Some(PartyInfo(apu, apv)) : apu \in values, apv \in values}

\* ecdhesDeriveEncryptionKey({enc, curve, yourPublicKey, providedParameters});
\* myPrivateKey is the draw of curve.randomPrivateKey()
DeriveEncryptionKey ==
  /\ encryptCall.pc = "idle"
  /\ \E i \in 1..Len(JweEncs), providedParameters \in ProvidedParametersInputs,
        myPrivateKey \in 1..MaxEphemeral :
       LET params == [ enc |-> JweEncs[i], curve |-> recipient.crv,
                       yourPublicKey |-> getPublicKey(recipient.crv, recipient.d),
                       providedParameters |-> providedParameters ]
           derived == ecdhesDeriveEncryptionKey(params.enc, params.curve, params.yourPublicKey,
                                                providedParameters, myPrivateKey)
       IN encryptCall' = [NoCall EXCEPT !.pc = IF derived.ok THEN "resolved" ELSE "rejected",
                                        !.called = params, !.result = derived]
  /\ UNCHANGED << jwsVars, env, recipient, setterCalls, encrypter, thrown, aesLog, wire, decryptCall >>

\* ecdhesDeriveDecryptionKey({enc, curve, myPrivateKey, protectedHeader}) on
\* the parameters that ecdhesDeriveEncryptionKey returned
DeriveDecryptionKey ==
  /\ encryptCall.pc = "resolved"
  /\ decryptCall.pc = "idle"
  /\ LET params == [ enc |-> encryptCall.called.enc, curve |-> recipient.crv,
                     myPrivateKey |-> recipient.d,
                     protectedHeader |-> encryptCall.result.v.parameters ]
         derived == ecdhesDeriveDecryptionKey(params.enc, params.curve, params.myPrivateKey,
                                              params.protectedHeader)
     IN decryptCall' = [NoDecryptCall EXCEPT !.pc = IF derived.ok THEN "resolved" ELSE "rejected",
                                             !.called = params, !.result = derived]
  /\ UNCHANGED << jwsVars, env, recipient, setterCalls, encrypter, thrown, encryptCall, aesLog, wire >>

InitEcdhes ==
  /\ env = "derive"
  /\ recipient \in [crv : EcdhCurveNames, d : 1..MaxScalar]
  /\ encrypter = NewEncrypter
  /\ thrown = Undefined
  /\ encryptCall = NoCall
  /\ aesLog = {}
  /\ wire = Undefined
  /\ decryptCall = NoDecryptCall
  /\ setterCalls = NoSetterCalls(NewEncrypter)
  /\ signerKey = [crv |-> "P-256", d |-> 1]
  /\ signer = NewSigner
  /\ signerThrown = Undefined
  /\ signCall = NoSignCall
  /\ sigLog = {}
  /\ jwsWire = Undefined
  /\ verifyCall = NoVerifyCall
  /\ signerSetterCalls = NoSetterCalls(NewSigner)

NextEcdhes ==
  \/ DeriveEncryptionKey
  \/ DeriveDecryptionKey

SpecEcdhes == InitEcdhes /\ [][NextEcdhes]_vars

CritOutsideProtectedFails ==
  /\ ( /\ Has(encryptCall.called, "fields")
       /\ ~IsDefined(EncryptShapeError(encryptCall.called.plaintext,
                                       encryptCall.called.yourJwkPublicKey))
       /\ ~Has(ObjectOf(encryptCall.called.fields.protectedHeader), "crit")
       /\ \/ Has(ObjectOf(encryptCall.called.fields.sharedUnprotectedHeader), "crit")
          \/ Has(ObjectOf(encryptCall.called.fields.unprotectedHeader), "crit") )
     => /\ encryptCall.pc = "rejected"
        /\ encryptCall.result.err.type = "JweInvalid"
  /\ ( /\ Has(decryptCall.called, "jwe")
       /\ ~IsDefined(DecryptShapeError(decryptCall.called.jwe,
                                       decryptCall.called.myJwkPrivateKey))
       /\ LET jwe == ValueOf(decryptCall.called.jwe)
              parsed == parseBase64UrlHeader(jwe.protected)
          IN /\ parsed.ok
             /\ ~Has(parsed.v, "crit")
             /\ \/ Has(ObjectOf(jwe.unprotected), "crit")
                \/ Has(ObjectOf(jwe.header), "crit") )
     => /\ decryptCall.pc = "rejected"
        /\ decryptCall.steps = <<"validate">>
        /\ decryptCall.result.err.type = "JweInvalid"

\* decrypt has rejected a JWE whose per-recipient header was given a crit
\* that its protected header does not have
CritOutsideProtectedFailsWitness ==
  /\ decryptCall.pc = "rejected"
  /\ Has(decryptCall.called, "jwe")
  /\ IsDefined(decryptCall.called.jwe)
  /\ ValueOf(decryptCall.called.jwe).header = Some([crit |-> <<"kid">>])
  /\ decryptCall.cause = Some(Error("JweInvalid", "crit MUST be integrity protected"))
  /\ decryptCall.result = Throw(Error("JweInvalid", "Failed to decrypt JWE"))


\* C12: when a parameter name stands in more than one of the protected, the
\* shared unprotected and the per-recipient header of the builder, encrypt
\* rejects with JweInvalid before any cryptographic work: it has not called
\* deriveEncryptionKey (no ephemeral key, no shared secret, no CEK) and it
\* never reaches aes.encrypt, so the AEAD provider has encrypted nothing.
DisjointnessBeforeCrypto ==
  ( /\ Has(encryptCall.called, "fields")
    /\ ~IsDefined(EncryptShapeError(encryptCall.called.plaintext,
                                    encryptCall.called.yourJwkPublicKey))
    /\ LET fields == encryptCall.called.fields IN
       /\ isPlainObject(ObjectOf(fields.protectedHeader))
       /\ isPlainObject(ObjectOf(fields.sharedUnprotectedHeader))
       /\ isPlainObject(ObjectOf(fields.unprotectedHeader))
       /\ ~areDisjoint(fields.protectedHeader, fields.sharedUnprotectedHeader,
                       fields.unprotectedHeader) )
  => /\ encryptCall.pc = "rejected"
     /\ encryptCall.result.err.type = "JweInvalid"
     /\ encryptCall.steps = <<"validate">>
     /\ aesLog = {}

\* encrypt has rejected a builder whose shared and per-recipient headers both
\* name kid, for the reason that the names are not disjoint
DisjointnessBeforeCryptoWitness ==
  /\ encryptCall.pc = "rejected"
  /\ encryptCall.called.fields.sharedUnprotectedHeader = Some([kid |-> "key-1"])
  /\ encryptCall.called.fields.unprotectedHeader = Some([kid |-> "key-1"])
  /\ encryptCall.cause = Some(Error("JweInvalid", "Header Parameter names must be disjoint"))
  /\ encryptCall.steps = <<"validate">>


\* C13, as stated: with zip in any header position, the failure the caller
\* of encrypt or of decrypt observes is JweNotSupported.
ZipIsNotSupportedToCaller ==
  /\ ( /\ Has(encryptCall.called, "fields")
       /\ ~IsDefined(EncryptShapeError(encryptCall.called.plaintext,
                                       encryptCall.called.yourJwkPublicKey))
       /\ LET fields == encryptCall.called.fields IN
          \/ Has(ObjectOf(fields.protectedHeader), "zip")
          \/ Has(ObjectOf(fields.sharedUnprotectedHeader), "zip")
          \/ Has(ObjectOf(fields.unprotectedHeader), "zip") )
     => /\ encryptCall.pc = "rejected"
        /\ encryptCall.result.err.type = "JweNotSupported"
  /\ ( /\ Has(decryptCall.called, "jwe")
       /\ ~IsDefined(DecryptShapeError(decryptCall.called.jwe,
                                       decryptCall.called.myJwkPrivateKey))
       /\ LET jwe == ValueOf(decryptCall.called.jwe)
              parsed == parseBase64UrlHeader(jwe.protected)
          IN \/ (parsed.ok /\ Has(parsed.v, "zip"))
             \/ Has(ObjectOf(jwe.unprotected), "zip")
             \/ Has(ObjectOf(jwe.header), "zip") )
     => /\ decryptCall.pc = "rejected"
        /\ decryptCall.result.err.type = "JweNotSupported"

\* C13, amended: with zip in any header position, mergeJweHeaders throws
\* JweNotSupported once the headers have passed verifyJweHeaders, but encrypt
\* and decrypt catch it: the caller of encrypt observes JweInvalid 'Failed to
\* encrypt plaintext', the caller of decrypt JweInvalid 'Failed to decrypt
\* JWE', both before any key is derived; JweNotSupported stays the cause
\* inside.
ZipIsNotSupportedInside ==
  /\ ( /\ Has(encryptCall.called, "fields")
       /\ ~IsDefined(EncryptShapeError(encryptCall.called.plaintext,
                                       encryptCall.called.yourJwkPublicKey))
       /\ LET fields == encryptCall.called.fields IN
          \/ Has(ObjectOf(fields.protectedHeader), "zip")
          \/ Has(ObjectOf(fields.sharedUnprotectedHeader), "zip")
          \/ Has(ObjectOf(fields.unprotectedHeader), "zip") )
     => LET fields == encryptCall.called.fields
            jwk == ValueOf(encryptCall.called.yourJwkPublicKey)
            verified == verifyJweHeaders(fields.protectedHeader,
                                         fields.sharedUnprotectedHeader,
                                         fields.unprotectedHeader)
            merged == mergeJweHeaders(fields.protectedHeader,
                                      fields.sharedUnprotectedHeader,
                                      fields.unprotectedHeader)
            curve == createEcdhCurve(ValueOf(jwk.crv))
        IN /\ encryptCall.pc = "rejected"
           /\ encryptCall.result = Throw(Error("JweInvalid", "Failed to encrypt plaintext"))
           /\ encryptCall.steps = <<"validate">>
           /\ ~merged.ok
           /\ verified.ok => merged.err.type = "JweNotSupported"
           /\ (curve.ok /\ toRawPublicKey(curve.v, jwk).ok)
                => encryptCall.cause = Some(merged.err)
  /\ ( /\ Has(decryptCall.called, "jwe")
       /\ ~IsDefined(DecryptShapeError(decryptCall.called.jwe,
                                       decryptCall.called.myJwkPrivateKey))
       /\ LET jwe == ValueOf(decryptCall.called.jwe)
              parsed == parseBase64UrlHeader(jwe.protected)
          IN \/ (parsed.ok /\ Has(parsed.v, "zip"))
             \/ Has(ObjectOf(jwe.unprotected), "zip")
             \/ Has(ObjectOf(jwe.header), "zip") )
     => LET jwe == ValueOf(decryptCall.called.jwe)
            parsed == parseBase64UrlHeader(jwe.protected)
        IN /\ decryptCall.pc = "rejected"
           /\ decryptCall.result = Throw(Error("JweInvalid", "Failed to decrypt JWE"))
           /\ decryptCall.steps = <<"validate">>
           /\ (/\ parsed.ok
               /\ verifyJweHeaders(Some(parsed.v), jwe.unprotected, jwe.header).ok)
                => mergeJweHeaders(Some(parsed.v), jwe.unprotected, jwe.header).err.type
                     = "JweNotSupported"

\* encrypt has rejected a protected header with zip: what mergeJweHeaders
\* threw was JweNotSupported, what the caller observes is JweInvalid
ZipIsNotSupportedInsideWitness ==
  /\ encryptCall.pc = "rejected"
  /\ Has(ObjectOf(encryptCall.called.fields.protectedHeader), "zip")
  /\ encryptCall.cause = Some(Error("JweNotSupported", "zip is not supported"))
  /\ encryptCall.result = Throw(Error("JweInvalid", "Failed to encrypt plaintext"))


\* C14, as stated: of the calls of one setter of a FlattenedEncrypter or of
\* a FlattenedSigner, the second and every later one throws, whatever the
\* arguments were.
SettersThrowOnRepeat ==
  /\ \A field \in DOMAIN setterCalls :
       \A i \in 2..Len(setterCalls[field]) : setterCalls[field][i].threw
  /\ \A field \in DOMAIN signerSetterCalls :
       \A i \in 2..Len(signerSetterCalls[field]) : signerSetterCalls[field][i].threw

\* C14, amended: a call of a setter throws exactly when an earlier call of
\* the same setter passed a value; a call that passed undefined stores
\* nothing and the setter can be called again.  The field of the builder
\* holds a value exactly when some call passed one.
SettersThrowOnceSet ==
  /\ \A field \in DOMAIN setterCalls :
       /\ \A i \in 1..Len(setterCalls[field]) :
            setterCalls[field][i].threw
              <=> \E j \in 1..(i - 1) : setterCalls[field][j].value
       /\ IsDefined(encrypter[field])
            <=> \E j \in 1..Len(setterCalls[field]) : setterCalls[field][j].value
  /\ \A field \in DOMAIN signerSetterCalls :
       /\ \A i \in 1..Len(signerSetterCalls[field]) :
            signerSetterCalls[field][i].threw
              <=> \E j \in 1..(i - 1) : signerSetterCalls[field][j].value
       /\ IsDefined(signer[field])
            <=> \E j \in 1..Len(signerSetterCalls[field]) : signerSetterCalls[field][j].value

\* protectedHeader of an encrypter was called with undefined, then with a
\* header, which it stored, then with a header again, which threw
SettersThrowOnceSetWitness ==
  /\ setterCalls.protectedHeader
       = << SetterCall(Undefined, FALSE), SetterCall(Some(EcdhHeader("A128GCM")), FALSE),
            SetterCall(Some(EcdhHeader("A128GCM")), TRUE) >>
  /\ encrypter.protectedHeader = Some(EcdhHeader("A128GCM"))
  /\ thrown = Some(Error("JweInvalid", "can only be called once"))


CallerKeysSurviveEncrypt ==
  (encryptCall.pc = "resolved" /\ encryptCall.earlier = <<>>) =>
    LET h == ValueOf(encryptCall.called.fields.protectedHeader)
        emitted == parseBase64UrlHeader(encryptCall.result.v.protected).v
    IN \A k \in DOMAIN h : Has(emitted, k) /\ emitted[k] = h[k]

\* C17: the derived parameters win over the caller's protected header.  In
\* the protected header of the JWE that encrypt returns, epk is the public key
\* of the ephemeral key the content encryption key was derived with, whatever
\* epk the caller set; apu and apv are the base64url of the party info given
\* by keyManagementParameters when it was given, and the caller's values, if
\* any, when it was not; every other key is a key of the caller's header and
\* has the caller's value.
DerivedParametersOverwrite ==
  (encryptCall.pc = "resolved" /\ encryptCall.earlier = <<>>) =>
    LET called == encryptCall.called
        h == ValueOf(called.fields.protectedHeader)
        emitted == parseBase64UrlHeader(encryptCall.result.v.protected).v
        yourJwk == ValueOf(called.yourJwkPublicKey)
        crv == ValueOf(yourJwk.crv)
        provided(name) == IF IsDefined(called.fields.keyManagementParameters)
                            THEN ValueOf(called.fields.keyManagementParameters)[name]
                          ELSE Undefined
    IN
    /\ DOMAIN emitted \subseteq (DOMAIN h) \cup {"epk", "apu", "apv"}
    /\ \A k \in (DOMAIN h) \ {"epk", "apu", "apv"} : Has(emitted, k) /\ emitted[k] = h[k]
    /\ \E myPrivateKey \in 1..MaxEphemeral :
         /\ Get(emitted, "epk") = Some(toJwkPublicKey(getPublicKey(crv, myPrivateKey)))
         /\ Some(encryptCall.locals.cek)
              = Some(EcdhesKdf(h.enc, myPrivateKey, toRawPublicKey(crv, yourJwk).v,
                               provided("apu"), provided("apv")).v)
    /\ \A k \in {"apu", "apv"} :
         IF IsDefined(provided(k))
           THEN Get(emitted, k) = Some(encodeBase64Url(ValueOf(provided(k))))
         ELSE Get(emitted, k) = Get(h, k)

DerivedParametersOverwriteWitness ==
  /\ encryptCall.pc = "resolved"
  /\ encryptCall.earlier = <<>>
  /\ LET h == ValueOf(encryptCall.called.fields.protectedHeader)
         emitted == parseBase64UrlHeader(encryptCall.result.v.protected).v
     IN /\ Has(h, "epk") /\ emitted["epk"] # h["epk"]
        /\ Has(h, "apu") /\ emitted["apu"] # h["apu"]
        /\ emitted["alg"] = h["alg"]


\* C18: the AAD handed to the AEAD.  When the caller supplied additional
\* authenticated data, the empty byte sequence included, encrypt hands the
\* AEAD b64u(protected header) "." b64u(aad), and b64u(protected header)
\* when not; decrypt hands the AEAD the same, built from the members
\* protected and aad of the JWE it received.
AeadAadAsSpecified ==
  LET rule(protectedB64U, aadB64U) ==
        IF IsDefined(aadB64U) THEN protectedB64U \o <<Dot>> \o ValueOf(aadB64U)
        ELSE protectedB64U
  IN
  /\ encryptCall.pc \in {"awaitAes", "resolved"} =>
       LET aad == encryptCall.called.fields.aad IN
       encryptCall.locals.aad
         = rule(encryptCall.locals.protectedHeaderB64U,
                IF IsDefined(aad) THEN Some(encodeBase64Url(ValueOf(aad))) ELSE Undefined)
  /\ (decryptCall.pc \in {"awaitAes", "resolved"} /\ Has(decryptCall.locals, "aesAad")) =>
       LET jwe == ValueOf(decryptCall.called.jwe) IN
       decryptCall.locals.aesAad = rule(ValueOf(jwe.protected), jwe.aad)


CompactForbiddenWhenB64False ==
  ( /\ signCall.pc # "idle" /\ signCall.form = "compact"
    /\ IsDefined(signCall.called.fields.protectedHeader)
    /\ Get(ValueOf(signCall.called.fields.protectedHeader), "b64") = Some(JFalse) )
    => signCall.pc = "rejected"

\* C20: CompactSigner.sign with a protected header whose b64 is false.  When
\* the flattened sign it calls fails, it fails the same way.  When b64 is
\* listed in crit, or the payload is empty, it fails with JwsInvalid 'use the
\* flattened module for creating JWS with b64: false'.  When b64 is not
\* listed in crit and the payload is not empty, b64 is ignored: the call
\* returns the compact JWS of the base64url of the payload under the
\* protected header as given, b64 false included.
CompactForbiddenWhenB64Critical ==
  ( /\ signCall.pc # "idle" /\ signCall.form = "compact"
    /\ IsDefined(signCall.called.fields.protectedHeader)
    /\ Get(ValueOf(signCall.called.fields.protectedHeader), "b64") = Some(JFalse) )
    =>
    LET h == ValueOf(signCall.called.fields.protectedHeader)
        critical == Has(h, "crit") /\ \E i \in DOMAIN h.crit : h.crit[i] = "b64"
        payload == ValueOf(signCall.called.payload)
    IN
    IF sigLog = {} THEN ~signCall.result.ok
    ELSE IF critical \/ payload = <<>>
      THEN signCall.result
             = Throw(Error("JwsInvalid",
                           "use the flattened module for creating JWS with b64: false"))
    ELSE /\ signCall.result.ok
         /\ Len(split(signCall.result.v)) = 3
         /\ split(signCall.result.v)[1] = encodeBase64UrlHeader(Some(h))
         /\ split(signCall.result.v)[2] = encodeBase64Url(payload)
         /\ Get(parseBase64UrlHeader(Some(split(signCall.result.v)[1])).v, "b64")
              = Some(JFalse)

CompactForbiddenWhenB64CriticalWitness ==
  /\ signCall.pc = "resolved" /\ signCall.form = "compact"
  /\ Get(ValueOf(signCall.called.fields.protectedHeader), "b64") = Some(JFalse)
  /\ ~Has(ValueOf(signCall.called.fields.protectedHeader), "crit")
  /\ split(signCall.result.v)[2] = encodeBase64Url(<<80, 81>>)


\* C21: cross-serialization when the payload is base64url-encoded.  A compact
\* JWS that CompactSigner.sign returned, split on '.' into the members
\* protected, payload and signature, verifies with FlattenedVerifier.verify,
\* and a flattened JWS that FlattenedSigner.sign returned without unprotected
\* header, joined as protected.payload.signature, verifies with
\* CompactVerifier.verify; both yield the payload and the protected header
\* that were signed.
CrossSerialization ==
  ( /\ signCall.pc = "resolved"
    /\ signCall.called.jwkPrivateKey = Some(SignerPrivateJwk(signerKey))
    /\ Get(ValueOf(signCall.called.fields.protectedHeader), "b64") # Some(JFalse)
    /\ verifyCall.pc # "idle"
    /\ verifyCall.form # signCall.form
    /\ verifyCall.called.jwkPublicKey = Some(SignerPublicJwk(signerKey))
    /\ verifyCall.called.options = NoVerifyOptions
    /\ IF signCall.form = "compact"
         THEN verifyCall.called.jws = Some(SplitCompact(signCall.result.v))
       ELSE /\ ~IsDefined(signCall.result.v.header)
            /\ verifyCall.called.jws = Some(JoinFlattened(signCall.result.v)) )
  => /\ verifyCall.pc = "resolved"
     /\ Some(verifyCall.result.v.payload) = signCall.called.payload
     /\ verifyCall.result.v.protectedHeader = signCall.called.fields.protectedHeader

CrossSerializationWitness ==
  /\ signCall.pc = "resolved" /\ signCall.form = "compact"
  /\ Get(ValueOf(signCall.called.fields.protectedHeader), "b64") = Some(JTrue)
  /\ signCall.called.payload = Some(<<80, 81>>)
  /\ verifyCall.pc = "resolved" /\ verifyCall.form = "flattened"
  /\ verifyCall.called.jws = Some(SplitCompact(signCall.result.v))
  /\ verifyCall.result.v.payload = <<80, 81>>


\* C22: once the checks of the arguments have passed, every failure of
\* FlattenedEncrypter.encrypt reaches the caller as JweInvalid 'Failed to
\* encrypt plaintext' and every failure of FlattenedSigner.sign as JwsInvalid
\* 'Failed to sign payload', whatever was thrown inside.
UniformEncryptAndSignError ==
  /\ ( /\ encryptCall.pc = "rejected"
       /\ ~IsDefined(EncryptShapeError(encryptCall.called.plaintext,
                                       encryptCall.called.yourJwkPublicKey)) )
     => encryptCall.result = Throw(Error("JweInvalid", "Failed to encrypt plaintext"))
  /\ ( /\ signCall.pc = "rejected"
       /\ signCall.form = "flattened"
       /\ ~IsDefined(SignShapeError(signCall.called.payload, signCall.called.jwkPrivateKey)) )
     => signCall.result = Throw(Error("JwsInvalid", "Failed to sign payload"))

UniformEncryptAndSignErrorWitness ==
  /\ signCall.pc = "rejected"
  /\ signCall.form = "flattened"
  /\ IsDefined(signCall.cause)
  /\ ValueOf(signCall.cause).type = "JweInvalid"
  /\ signCall.result = Throw(Error("JwsInvalid", "Failed to sign payload"))


\* C23: for every recipient key pair, every enc and every party info of at
\* most 32 bytes, ecdhesDeriveDecryptionKey, given the recipient's private key
\* and the parameters ecdhesDeriveEncryptionKey returned (epk and the
\* base64url of apu and apv), returns the CEK that ecdhesDeriveEncryptionKey
\* returned.
CekEquivalence ==
  (encryptCall.pc = "resolved" /\ decryptCall.pc # "idle")
    => decryptCall.result = Ok(encryptCall.result.v.cek)

CekEquivalenceWitness ==
  /\ encryptCall.pc = "resolved"
  /\ encryptCall.called.providedParameters
       = Some(PartyInfo(Some(PartyInfoList[3]), Some(PartyInfoList[2])))
  /\ decryptCall.pc = "resolved"
  /\ Has(decryptCall.called.protectedHeader, "apu")
  /\ decryptCall.result.v = encryptCall.result.v.cek
  /\ Len(decryptCall.result.v) = 64


\* C24: a setter called on the encrypter while encrypt is suspended at
\* aes.encrypt cannot change the result of that call: the members
\* unprotected, header and aad of the JWE that encrypt returns are the shared
\* unprotected header, the per-recipient header and the additional
\* authenticated data the encrypter held when encrypt was called, which are
\* the ones that were merged, validated and bound into the AEAD.
JweIsSnapshotAtEncrypt ==
  encryptCall.pc = "resolved" =>
    LET jwe == encryptCall.result.v
        fields == encryptCall.called.fields
    IN
    /\ jwe.unprotected = fields.sharedUnprotectedHeader
    /\ jwe.header = fields.unprotectedHeader
    /\ jwe.aad = IF IsDefined(fields.aad) THEN Some(encodeBase64Url(ValueOf(fields.aad)))
                 ELSE Undefined


SelfConsistent(called, locals, jwe, log) ==
  /\ jwe.protected = Some(locals.protectedHeaderB64U)
  /\ LET validated == DecryptValidate(jwe, RecipientPrivateJwk(recipient), called.options) IN
     /\ validated.ok
     /\ LET l == validated.v
            cek == deriveDecryptionKey(l.alg, l.enc, l.ecdhCurve, l.myPrivateKey,
                                       l.parsedProtected)
            aad == encodeAesAad(ValueOf(jwe.protected), jwe.aad)
        IN /\ cek = Ok(locals.cek)
           /\ aad = locals.aad
           /\ AesDecryptOutput(log, l.enc, cek.v, aad, l.iv, l.ciphertext, l.tag)
                = Ok(ValueOf(called.plaintext))

FirstAccepted(calls) ==
  LET accepted == {i \in DOMAIN calls : ~calls[i].threw} IN
  IF accepted = {} THEN Undefined
  ELSE calls[CHOOSE i \in accepted : \A j \in accepted : i <= j].passed

\* the argument of the last call of a setter that did not throw
LastAccepted(calls) ==
  LET accepted == {i \in DOMAIN calls : ~calls[i].threw} IN
  IF accepted = {} THEN Undefined
  ELSE calls[CHOOSE i \in accepted : \A j \in accepted : j <= i].passed

\* a call of a setter of the encrypter or of the signer has thrown on this step
SetterRejected ==
  \/ \E field \in DOMAIN setterCalls :
       /\ Len(setterCalls'[field]) = Len(setterCalls[field]) + 1
       /\ setterCalls'[field][Len(setterCalls'[field])].threw
  \/ \E field \in DOMAIN signerSetterCalls :
       /\ Len(signerSetterCalls'[field]) = Len(signerSetterCalls[field]) + 1
       /\ signerSetterCalls'[field][Len(signerSetterCalls'[field])].threw

\* the first encrypt on the builder, and sign, found in every field that was
\* set what Of says of the calls of its setter, and returned the unprotected
\* headers that way
TerminalUses(Of(_)) ==
  /\ (encryptCall.pc # "idle" /\ encryptCall.earlier = <<>> /\ encryptCall.pending = <<>>)
       => /\ \A field \in DOMAIN setterCalls :
               IsDefined(encryptCall.called.fields[field])
                 => encryptCall.called.fields[field] = Of(setterCalls[field])
          /\ encryptCall.pc = "resolved" =>
               /\ IsDefined(encryptCall.result.v.unprotected)
                    => encryptCall.result.v.unprotected
                         = Of(setterCalls.sharedUnprotectedHeader)
               /\ IsDefined(encryptCall.result.v.header)
                    => encryptCall.result.v.header = Of(setterCalls.unprotectedHeader)
  /\ signCall.pc # "idle"
       => /\ \A field \in DOMAIN signerSetterCalls :
               IsDefined(signCall.called.fields[field])
                 => signCall.called.fields[field] = Of(signerSetterCalls[field])
          /\ (signCall.pc = "resolved" /\ signCall.form = "flattened") =>
               /\ signCall.result.v.header = signCall.called.fields.unprotectedHeader
               /\ signCall.result.v.protected
                    = Some(encodeBase64UrlHeader(Of(signerSetterCalls.protectedHeader)))

\* C27, as stated: a setter call that throws 'can only be called once'
\* leaves the builder as it was, and encrypt and sign use for each field the
\* value given by the first call of its setter that did not throw.
RejectedSetterLeavesFirstValue ==
  [][ /\ SetterRejected => (encrypter' = encrypter /\ signer' = signer)
      /\ TerminalUses(FirstAccepted)' ]_vars

\* C27, amended: a setter call that throws 'can only be called once' leaves
\* the builder as it was, and encrypt and sign use for each field the value
\* given by the last call of its setter that did not throw, which is the
\* first call that passed a value: a call that passed undefined did not
\* throw and stored nothing.  No value passed to a call that threw is used.
RejectedSetterLeavesBuilder ==
  [][ /\ SetterRejected => (encrypter' = encrypter /\ signer' = signer)
      /\ TerminalUses(LastAccepted)' ]_vars

\* a sign used the unprotected header of the first call of the setter that
\* passed one, after a call that passed undefined and before a call that
\* passed another header and threw
RejectedSetterLeavesBuilderWitness ==
  /\ signCall.pc = "resolved"
  /\ Len(signerSetterCalls.unprotectedHeader) = 3
  /\ signerSetterCalls.unprotectedHeader[1] = SetterCall(Undefined, FALSE)
  /\ signerSetterCalls.unprotectedHeader[2] = SetterCall(Some([kid |-> "key-1"]), FALSE)
  /\ signerSetterCalls.unprotectedHeader[3] = SetterCall(Some([kid |-> "key-2"]), TRUE)
  /\ signCall.result.v.header = Some([kid |-> "key-1"])
  /\ signer.unprotectedHeader = Some([kid |-> "key-1"])


(***************************************************************************)
(* Termination of decrypt.                                                 *)
(***************************************************************************)
\* The timer of sleep fires, a resolved promise runs its continuation, and
\* the AEAD provider's call returns.
SpecLive ==
  /\ Init
  /\ [][Next]_vars
  /\ WF_vars(MitigationWake)
  /\ WF_vars(DecryptResume)
  /\ WF_vars(AesDecryptReturn)

\* how often a step occurs in the steps of a call
Occurrences(steps, step) == Cardinality({i \in DOMAIN steps : steps[i] = step})

\* C28: every call of decrypt settles, resolved or rejected, given that the
\* timer fires and the provider returns; on the way it sleeps at most once,
\* for less than 500 ms, and calls aes.decrypt at most once.
DecryptSettles ==
  /\ [](Has(decryptCall.called, "jwe")
          => /\ Occurrences(decryptCall.steps, "sleep") <= 1
             /\ Occurrences(decryptCall.steps, "aes.decrypt") <= 1
             /\ Occurrences(decryptCall.steps, "wrapper") <= 1
             /\ decryptCall.delay < 500)
  /\ Has(decryptCall.called, "jwe") ~> decryptCall.pc \in {"resolved", "rejected"}

\* a decrypt whose key derivation failed has slept 400 ms, once, called
\* aes.decrypt with the mitigated CEK, once, and rejected
DecryptSettlesWitness ==
  /\ Has(decryptCall.called, "jwe")
  /\ decryptCall.pc = "rejected"
  /\ decryptCall.delay = 400
  /\ decryptCall.steps = <<"validate", "wrapper", "sleep", "randomBytes", "aes.decrypt">>


(***************************************************************************)
(* The order of the steps of a terminal operation.                         *)
(***************************************************************************)
\* a step that starts only if every step before it has succeeded: before is
\* the steps started so far and the outcome of the last one
Then(before, step, F(_)) ==
  IF ~before.r.ok THEN before
  ELSE [started |-> Append(before.started, step), r |-> F(before.r.v)]

\* the argument checks, as the first step
InputValidation(shape) ==
  [ started |-> <<"input validation">>,
    r |-> IF IsDefined(shape) THEN Throw(ValueOf(shape)) ELSE Ok(EmptyObject) ]

\* encrypt, its steps taken in the stated order, up to the key derivation
EncryptInOrder(called) ==
  LET fields == called.fields
      key == ValueOf(called.yourJwkPublicKey)
      prot == ObjectOf(fields.protectedHeader)
      raw(l) == Const(l, "yourPublicKey", toRawPublicKey(l.ecdhCurve, key))
      provider(l) == Bind(Const(l, "ecdhCurve", createEcdhCurve(ValueOf(key.crv))), raw)
      composition(l) ==
        Const(l, "joseHeader",
              mergeJweHeaders(fields.protectedHeader, fields.sharedUnprotectedHeader,
                              fields.unprotectedHeader))
      crit(l) ==
        Const(l, "crit", validateCrit("JweInvalid", EmptyObject, called.options.crit,
                                      fields.protectedHeader, l.joseHeader))
      enc(l) == Const(l, "enc", validateJweEnc(Get(prot, "enc")))
      algorithm(l) == Bind(Const(l, "alg", validateJweAlg(Get(prot, "alg"))), enc)
      derivation(l) ==
        Const(l, "derived",
              deriveEncryptionKey(l.alg, l.enc, l.ecdhCurve, l.yourPublicKey,
                                  fields.keyManagementParameters, 1))
  IN Then(Then(Then(Then(Then(
       InputValidation(EncryptShapeError(called.plaintext, called.yourJwkPublicKey)),
       "provider resolution", provider), "header composition", composition),
       "crit", crit), "algorithm validation", algorithm), "key derivation", derivation)

\* decrypt, its steps taken in the stated order, up to the key derivation
DecryptInOrder(called) ==
  LET jwe == ValueOf(called.jwe)
      key == ValueOf(called.myJwkPrivateKey)
      raw(l) == Const(l, "myPrivateKey", toRawPrivateKey(l.ecdhCurve, key))
      provider(l) == Bind(Const(l, "ecdhCurve", createEcdhCurve(ValueOf(key.crv))), raw)
      composition(l) == Const(l, "validated", validateFlattenedJwe(jwe))
      crit(l) ==
        Const(l, "crit", validateCrit("JweInvalid", EmptyObject, called.options.crit,
                                      Some(l.validated.parsedProtected),
                                      l.validated.joseHeader))
      encAllowed(l) ==
        Const(l, "encAllowed",
              checkJweEncAllowed(l.enc, called.options.contentEncryptionAlgorithms))
      algAllowed(l) ==
        Bind(Const(l, "algAllowed",
                   checkJweAlgAllowed(l.alg, called.options.keyManagementAlgorithms)),
             encAllowed)
      enc(l) ==
        Bind(Const(l, "enc", validateJweEnc(Get(l.validated.joseHeader, "enc"))), algAllowed)
      algorithm(l) ==
        Bind(Const(l, "alg", validateJweAlg(Get(l.validated.joseHeader, "alg"))), enc)
      derivation(l) ==
        Const(l, "cek", deriveDecryptionKey(l.alg, l.enc, l.ecdhCurve, l.myPrivateKey,
                                            l.validated.parsedProtected))
  IN Then(Then(Then(Then(Then(
       InputValidation(DecryptShapeError(called.jwe, called.myJwkPrivateKey)),
       "provider resolution", provider), "header composition", composition),
       "crit", crit), "algorithm validation", algorithm), "key derivation", derivation)

\* sign, its steps taken in the stated order, up to the sign target
SignInOrder(called) ==
  LET fields == called.fields
      key == ValueOf(called.jwkPrivateKey)
      prot == ObjectOf(fields.protectedHeader)
      raw(l) == Const(l, "privateKey", toRawPrivateKey(l.signatureCurve, key))
      provider(l) ==
        Bind(Const(l, "signatureCurve", createSignatureCurve(ValueOf(key.crv))), raw)
      composition(l) ==
        Const(l, "joseHeader",
              mergeJwsHeaders(fields.protectedHeader, fields.unprotectedHeader))
      b64(l) == Const(l, "b64", parseB64(Get(prot, "b64"), l.criticalParamNames))
      crit(l) ==
        Bind(Const(l, "criticalParamNames",
                   validateCrit("JweInvalid", [b64 |-> TRUE], called.options.crit,
                                fields.protectedHeader, l.joseHeader)),
             b64)
      algorithm(l) ==
        Const(l, "alg", validateJwsAlg(Get(prot, "alg"),
                                       signatureAlgorithmName(l.signatureCurve)))
      target(l) ==
        Const(l, "target",
              Ok(encodeSignTarget(fields.protectedHeader, ValueOf(called.payload), l.b64)))
  IN Then(Then(Then(Then(Then(
       InputValidation(SignShapeError(called.payload, called.jwkPrivateKey)),
       "provider resolution", provider), "header composition", composition),
       "crit", crit), "algorithm validation", algorithm), "sign target", target)

\* verify, its steps taken in the stated order, up to the verify target
VerifyInOrder(called) ==
  LET jws == ValueOf(called.jws)
      key == ValueOf(called.jwkPublicKey)
      raw(l) == Const(l, "publicKey", toRawPublicKey(l.signatureCurve, key))
      provider(l) ==
        Bind(Const(l, "signatureCurve", createSignatureCurve(ValueOf(key.crv))), raw)
      composition(l) == Const(l, "validated", validateFlattenedJws(jws))
      b64(l) ==
        Const(l, "b64", parseB64(Get(l.validated.parsedProtected, "b64"),
                                 l.criticalParamNames))
      crit(l) ==
        Bind(Const(l, "criticalParamNames",
                   validateCrit("JwsInvalid", [b64 |-> TRUE], called.options.crit,
                                Some(l.validated.parsedProtected), l.validated.joseHeader)),
             b64)
      algorithm(l) ==
        Const(l, "alg", validateJwsAlg(Get(l.validated.parsedProtected, "alg"),
                                       signatureAlgorithmName(l.signatureCurve)))
      target(l) ==
        Const(l, "target",
              encodeVerifyTarget(IF IsDefined(jws.protected) THEN ValueOf(jws.protected)
                                 ELSE <<>>,
                                 ValueOf(jws.payload), l.b64))
  IN Then(Then(Then(Then(Then(
       InputValidation(VerifyShapeError(called.jws, called.jwkPublicKey)),
       "provider resolution", provider), "header composition", composition),
       "crit", crit), "algorithm validation", algorithm), "sign target", target)

\* a call that stopped at the first step of the stated order that failed,
\* with that step's error: thrown as it is by the input validation, caught
\* and kept as the cause after it
StoppedAt(call, inOrder) ==
  /\ call.pc = "rejected"
  /\ IF Len(inOrder.started) = 1
       THEN call.result = Throw(inOrder.r.err) /\ call.cause = Undefined
     ELSE call.cause = Some(inOrder.r.err)

\* encrypt, sign and verify follow the stated order and start no step after
\* a step that failed: the primitive is called exactly when all six steps
\* before it succeeded, and a result is assembled only after the primitive
OthersInOrder ==
  /\ encryptCall.pc # "idle" =>
       LET inOrder == EncryptInOrder(encryptCall.called)
           aead == \E i \in DOMAIN encryptCall.steps : encryptCall.steps[i] = "aes.encrypt"
       IN IF inOrder.r.ok
            THEN /\ aead
                 /\ encryptCall.pc \in {"awaitAes", "resolved"}
                 /\ encryptCall.pc = "resolved" => encryptCall.result.ok
          ELSE StoppedAt(encryptCall, inOrder) /\ ~aead
  /\ (signCall.pc # "idle" /\ signCall.form = "flattened") =>
       LET inOrder == SignInOrder(signCall.called) IN
       IF inOrder.r.ok THEN signCall.pc = "resolved" /\ signCall.result.ok
       ELSE StoppedAt(signCall, inOrder)
  /\ (verifyCall.pc # "idle" /\ verifyCall.form = "flattened") =>
       LET inOrder == VerifyInOrder(verifyCall.called) IN
       IF inOrder.r.ok
         THEN /\ IsDefined(verifyCall.primitive)
              /\ verifyCall.pc = "resolved" <=> ValueOf(verifyCall.primitive)
       ELSE StoppedAt(verifyCall, inOrder) /\ ~IsDefined(verifyCall.primitive)

\* the AEAD primitive of a call of decrypt was started
AeadDecryptStarted ==
  \E i \in DOMAIN decryptCall.steps : decryptCall.steps[i] = "aes.decrypt"

\* C29, as stated: each terminal operation takes its steps in the order
\* input validation, provider resolution, header composition, crit,
\* algorithm validation, key derivation or sign target, primitive, result
\* assembly, and starts no step unless every step before it has succeeded.
StepsInOrderEachAfterSuccess ==
  /\ OthersInOrder
  /\ (decryptCall.pc # "idle" /\ Has(decryptCall.called, "jwe")) =>
       LET inOrder == DecryptInOrder(decryptCall.called) IN
       IF inOrder.r.ok
         THEN /\ decryptCall.pc \in {"derived", "awaitAes", "resolved", "rejected"}
              /\ decryptCall.pc = "rejected" => AeadDecryptStarted
       ELSE StoppedAt(decryptCall, inOrder) /\ ~AeadDecryptStarted

\* C29, amended: the operations take their steps in the stated order, and
\* encrypt, sign and verify start no step unless every step before it has
\* succeeded.  So does decrypt up to the key derivation; a key derivation
\* that fails does not stop decrypt: a random CEK takes the place of the
\* derived one after a sleep, the AEAD primitive is started with it, and the
\* call rejects.
StepsInOrder ==
  /\ OthersInOrder
  /\ (decryptCall.pc # "idle" /\ Has(decryptCall.called, "jwe")) =>
       LET inOrder == DecryptInOrder(decryptCall.called) IN
       IF inOrder.r.ok
         THEN /\ decryptCall.pc \in {"derived", "awaitAes", "resolved", "rejected"}
              /\ decryptCall.pc = "rejected" => AeadDecryptStarted
       ELSE IF Len(inOrder.started) < 6
         THEN StoppedAt(decryptCall, inOrder) /\ ~AeadDecryptStarted
       ELSE /\ decryptCall.pc \in {"sleeping", "derived", "awaitAes", "rejected"}
            /\ decryptCall.derivation = Some(inOrder.r)
            /\ decryptCall.pc \in {"awaitAes", "rejected"} <=> AeadDecryptStarted

\* a decrypt took the steps up to the key derivation in order, the key
\* derivation failed, the AEAD primitive was started all the same and the
\* call rejected
StepsInOrderWitness ==
  /\ decryptCall.pc = "rejected"
  /\ Has(decryptCall.called, "jwe")
  /\ DecryptInOrder(decryptCall.called).started
       = <<"input validation", "provider resolution", "header composition", "crit",
           "algorithm validation", "key derivation">>
  /\ ~DecryptInOrder(decryptCall.called).r.ok
  /\ AeadDecryptStarted


(***************************************************************************)
(* The errors of the JWS operations.                                       *)
(***************************************************************************)
\* C30: every rejection of FlattenedSigner.sign, the one after a crit
\* violation included, is a JwsInvalid, and every rejection of
\* FlattenedVerifier.verify is a JwsInvalid or a
\* JwsSignatureVerificationFailed: no JweInvalid leaves a JWS operation.
JwsErrorsOnly ==
  /\ (signCall.pc = "rejected" /\ signCall.form = "flattened")
       => signCall.result.err.type = "JwsInvalid"
  /\ (verifyCall.pc = "rejected" /\ verifyCall.form = "flattened")
       => verifyCall.result.err.type \in {"JwsInvalid", "JwsSignatureVerificationFailed"}
  /\ IsDefined(signerThrown) => ValueOf(signerThrown).type = "JwsInvalid"

\* the crit validator threw a JweInvalid inside sign, and sign rejected with
\* the JwsInvalid of a failed signing
JwsErrorsOnlyWitness ==
  /\ signCall.pc = "rejected"
  /\ signCall.form = "flattened"
  /\ IsDefined(signCall.cause)
  /\ ValueOf(signCall.cause).type = "JweInvalid"
  /\ signCall.result = Throw(Error("JwsInvalid", "Failed to sign payload"))


====
